---- MODULE Spec2Model ----
(***************************************************************************)
(* State-machine model of the GargamelCoordinator matchmaking service:     *)
(* the Match Lifecycle Controller (Master_Bot), the client pool and the    *)
(* per-client lobby supervisors (DotaTalker.setupClient handlers) and the  *)
(* relational store (DBFunctions).                                         *)
(*                                                                         *)
(* Execution contexts: the control loop (asyncio) runs the Controller      *)
(* operations; each client thread runs its event handlers serially and     *)
(* posts on_game_started / on_game_ended to the control loop with          *)
(* asyncio.run_coroutine_threadsafe (loop_queue, FIFO).                    *)
(***************************************************************************)
EXTENDS Integers, Sequences, FiniteSets, TLC

\* ----------------------------------------------------------------- bounds
NumPlayers == 3
NumClients == 1
MaxGames == 1
MaxLoopQueue == 2
MaxPostgame == 2
MaxLaunch == 2

\* ------------------------------------------------------ program constants
\* config["TEAM_SIZE"] (T); the model instance uses teams of one.
TEAM_SIZE == 1
\* config["ELO_K"]
ELO_K == 32
\* dotaClient.gameID = None
NoGame == 0
\* LobbyState and MatchOutcome enums of DotaTalker.py
LS_RUN == 2
GS_POST_GAME == 6
OUTCOME_UNKNOWN == 0
OUTCOME_RADIANT == 2
OUTCOME_DIRE == 3
\* users.rating of every player at the start (kept small so that the fifth
\* powers power_mean sums stay within 32-bit integers; half of ELO_K, so that
\* one lost game takes a rating to 0)
InitRating == 16
\* matches.winning_team of a row on_game_started inserted (column not set)
NoWinner == -1

Players == 1..NumPlayers
Clients == 1..NumClients
GameIds == 1..MaxGames
Outcomes == {OUTCOME_UNKNOWN, OUTCOME_RADIANT, OUTCOME_DIRE}

\* DB.fetch_steam_id: users.steam_id of a discord id (a different id space)
fetch_steam_id(p) == 100 + p
SteamIds == {fetch_steam_id(p) : p \in Players}
SteamSet(S) == {fetch_steam_id(p) : p \in S}

VARIABLES
    \* ---- Master_Bot (control loop)
    queue,            \* coordinator.queue: queued player -> rating at enqueue
    pending_matches,  \* Master_Bot.pending_matches
    game_map,         \* Master_Bot.game_map: player -> game id (NoGame: no key)
    game_map_inverse, \* Master_Bot.game_map_inverse: game id -> rosters
    game_channels,    \* Master_Bot.game_channels (its key set)
    loop_queue,       \* coroutines scheduled on the control loop by client threads
    \* ---- DotaTalker (client pool, one thread per client)
    client,           \* dotaClients[i]: gameID, radiant, dire
    client_ready,     \* DotaTalker.client_ready
    lobby,            \* the platform's practice lobby client i is in
    gc_ready,         \* client i has a Game Coordinator session ("ready" seen,
                      \* no "notready" since)
    gc_watchdogs,     \* DotaTalker._gc_watchdogs: game_id -> state of the
                      \* future that runs _watch ("pending", "failed")
    pc,               \* the statement the thread of client i is at inside a
                      \* handler ("idle": between two handlers)
    mk,               \* the statement DotaTalker.make_game is at on the
                      \* control loop, with the slot and the game it holds
    pending_game_task, \* Master_Bot.pending_game_task: a task id, 0 for None
    loop_tasks,       \* the _start_game_loop tasks created so far: the await
                      \* each is at and the game it is forming
    fs,               \* force_start: "idle", or "create" between its cancel
                      \* and its create_task
    swp,              \* the statement DotaTalker.swap_players_in_game is at
                      \* on the control loop's thread, "idle" when none runs
    poll,             \* the GameModePoll view of game 1: _started, _closed,
                      \* votes_by_user, _auto_task, its coroutines (tasks),
                      \* the lobby's game mode, and since the last start the
                      \* tallies made and the mode changes applied
    \* ---- store
    game_counter,     \* game_counter.counter
    rating,           \* users.rating
    matches,          \* matches rows: match id -> state, winning_team
    match_players,    \* match_players rows
    \* ---- history (observations used by the properties)
    alive,            \* games whose lobby was created, not yet ended or cancelled
    cancelled,        \* games cancel_game completed for
    create_failed,    \* games whose create_practice_lobby raised
    host,             \* game id -> client index that acquired a slot for it
    run_done,         \* game id -> completed on_game_started applications
    rating_updates,   \* game id -> rating-update blocks of on_game_ended run
    finalize_count,   \* match id -> UPDATE matches statements that hit its row
    \* ---- TheCoordinator.Coordinator (the rating-window queue)
    usersByID,        \* Coordinator.usersByID: discord id -> User
    usersFIFO,        \* Coordinator.usersFIFO: Users in insertion order
    usersByRating,    \* Coordinator.usersByRating: Users sorted by rating
    waitingForTen,    \* Coordinator.waitingForTen
    calls,            \* callbacks eventLoop.call_soon has scheduled, in order
    clock,            \* the last value time.time() gave a User
    created,          \* User objects constructed so far (object identity)
    dispatched        \* the games dispatched as "game_created", in order

vars == <<queue, pending_matches, game_map, game_map_inverse, game_channels,
          loop_queue, client, client_ready, lobby, game_counter, rating,
          matches, match_players, alive, cancelled, create_failed, host,
          run_done, rating_updates, finalize_count, usersByID, usersFIFO,
          usersByRating, waitingForTen, calls, clock, created, dispatched,
          gc_ready, gc_watchdogs, pc, mk, pending_game_task, loop_tasks, fs,
          swp, poll>>

ctrl_vars == <<queue, pending_matches, game_map, game_map_inverse, game_channels>>
pool_vars == <<client, client_ready, lobby>>
store_vars == <<game_counter, rating, matches, match_players>>
hist_vars == <<alive, cancelled, create_failed, host, run_done, rating_updates,
               finalize_count>>
index_vars == <<usersByID, usersFIFO, usersByRating>>
coord_vars == <<index_vars, waitingForTen, calls, clock, created, dispatched>>
side_vars == <<pc, mk, pending_game_task, loop_tasks, fs, swp, poll>>
main_vars == <<side_vars, ctrl_vars, loop_queue, pool_vars, gc_ready, gc_watchdogs, store_vars,
               hist_vars>>

\* ---------------------------------------------------------------- helpers
Min(S) == CHOOSE x \in S : \A y \in S : x <= y

\* iteration order of a Python set of small ints (ascending)
RECURSIVE Asc(_)
Asc(S) == IF S = {} THEN << >> ELSE <<Min(S)>> \o Asc(S \ {Min(S)})

\* a client with no game: gameID, radiant, dire (and password) are None
IdleClient == [gameID |-> NoGame, radiant |-> {}, dire |-> {}]
\* launch_reqs: launch_practice_lobby requests the platform has not served yet
\* kick_reqs: the members practice_lobby_kick_from_team was requested for and
\* the platform has not moved yet
NoLobby ==
    [state |-> "none", id |-> NoGame, launch_reqs |-> 0, kick_reqs |-> {}, reported |-> FALSE,
     posts |-> 0]

Restrict(f, S) == [x \in S |-> f[x]]

\* ------------------------------------------------------------ rating math
Pow5(x) == x * x * x * x * x

RECURSIVE SumPow5(_)
SumPow5(rs) == IF rs = << >> THEN 0 ELSE Pow5(Head(rs)) + SumPow5(Tail(rs))

\* DB.power_mean(ratings, 5) = int((sum(r ** 5) / len(ratings)) ** (1 / 5)):
\* the largest m with len * m^5 <= sum. It raises for an empty list
\* (division by zero), and for a negative sum the float power is complex and
\* int() raises.
\* For a single rating r the sum has the sign of r and the result is r
\* (int((r ** 5) ** (1 / 5)) = r for every r in 0..10000 in floats), which
\* is computed without the fifth power.
PowerMeanRaises(rs) ==
    \/ rs = << >>
    \/ IF Len(rs) = 1 THEN Head(rs) < 0 ELSE SumPow5(rs) < 0
power_mean(rs) ==
    IF Len(rs) = 1 THEN Head(rs)
    ELSE CHOOSE m \in 0..100 :
             /\ Len(rs) * Pow5(m) <= SumPow5(rs)
             /\ Len(rs) * Pow5(m + 1) > SumPow5(rs)

\* round(r + k * (s_radiant - e_radiant)) - r with k = ELO_K = 32 and
\* e_radiant = 1 / (1 + 10 ** ((r_dire - r_radiant) / 3322)), d = r_dire - r_radiant.
\* 32 * (1 - e_radiant) grows with d from 0 to 32; EloSteps[n] is the least d
\* at which it rounds to n or more (the same for every integer r, in floats).
EloSteps ==
    << -5977, -4345, -3560, -3025, -2611, -2268, -1972, -1707, -1467, -1243,
       -1033, -834, -641, -454, -271, -90, 91, 272, 455, 642, 835, 1034, 1244,
       1468, 1708, 1973, 2269, 2612, 3026, 3561, 4346, 5978 >>

\* a rating update that ignores the expected score and has the wrong sign
SwappedDelta(d, s_radiant) ==
    IF s_radiant = 1 THEN -(ELO_K \div 2) ELSE ELO_K \div 2

RadiantDelta(d, s_radiant) ==
    LET won == Cardinality({n \in 1..ELO_K : d >= EloSteps[n]})
    IN  IF s_radiant = 1 THEN won ELSE won - ELO_K

\* round(r + k * (s_dire - e_dire)) - r, with s_dire = 1 - s_radiant and
\* e_dire = 1 - e_radiant
DireDelta(d, s_radiant) == -RadiantDelta(d, s_radiant)

RECURSIVE RatingsOf(_, _)
RatingsOf(order, rt) ==
    IF order = << >> THEN << >> ELSE <<rt[Head(order)]>> \o RatingsOf(Tail(order), rt)

\* ------------------------------------------------------------- clear_game
\* del self.game_map[player] for each player in turn; a missing key raises
\* KeyError, which ends clear_game (its except logs it).
RECURSIVE DelKeys(_, _)
DelKeys(order, gm) ==
    IF order = << >> THEN [gm |-> gm, ok |-> TRUE]
    ELSE IF gm[Head(order)] = NoGame THEN [gm |-> gm, ok |-> FALSE]
    ELSE DelKeys(Tail(order), [gm EXCEPT ![Head(order)] = NoGame])

clear_game(g, gmi, gm, gc) ==
    IF g \notin DOMAIN gmi
    THEN [gmi |-> gmi, gm |-> gm, gc |-> gc]
    ELSE LET order == Asc(gmi[g].radiant) \o Asc(gmi[g].dire)
             del == DelKeys(order, gm)
         IN  [gmi |-> Restrict(gmi, DOMAIN gmi \ {g}),
              gm |-> del.gm,
              gc |-> IF del.ok THEN gc \ {g} ELSE gc]

\* --------------------------------------------------------- teardown_lobby
\* DotaTalker.teardown_lobby(game_id) is called by Master_Bot and not defined
\* in DotaTalker.py; modelled from the specification: the supervisor of the
\* game leaves its lobby and its slot is released (idempotent).
teardown_lobby(g, cl, rd, lb) ==
    LET hit == {i \in Clients : g # NoGame /\ cl[i].gameID = g}
    IN  [client |-> [i \in Clients |-> IF i \in hit THEN IdleClient ELSE cl[i]],
         ready |-> [i \in Clients |-> IF i \in hit THEN TRUE ELSE rd[i]],
         lobby |-> [i \in Clients |-> IF i \in hit THEN NoLobby ELSE lb[i]]]

\* no handler and no make_game is under way
NoMake == [at |-> "idle", slot |-> 0, g |-> NoGame, radiant |-> {}, dire |-> {}]
InitSide ==
    /\ pc = [i \in Clients |-> "idle"]
    /\ mk = NoMake
    /\ pending_game_task = 0
    /\ loop_tasks = << >>
    /\ fs = "idle"
    /\ swp = [at |-> "idle", slot |-> 0, a |-> 0, b |-> 0]
    /\ poll = [started |-> FALSE, closed |-> FALSE, votes |-> << >>,
               auto_task |-> 0, tasks |-> << >>, mode |-> 22,
               tallies |-> 0, changes |-> 0]

\* Coordinator.__init__: empty indexes, nothing scheduled
InitCoordinator ==
    /\ usersByID = << >>
    /\ usersFIFO = << >>
    /\ usersByRating = << >>
    /\ waitingForTen = FALSE
    /\ calls = << >>
    /\ clock = 0
    /\ created = 0
    /\ dispatched = << >>

Init ==
    /\ InitCoordinator
    /\ InitSide
    /\ queue = << >>
    /\ pending_matches = {}
    /\ game_map = [p \in Players |-> NoGame]
    /\ game_map_inverse = << >>
    /\ game_channels = {}
    /\ loop_queue = << >>
    /\ client = [i \in Clients |-> IdleClient]
    /\ client_ready = [i \in Clients |-> FALSE]
    /\ gc_ready = [i \in Clients |-> FALSE]
    /\ gc_watchdogs = << >>
    /\ lobby = [i \in Clients |-> NoLobby]
    /\ game_counter = 0
    /\ rating = [p \in Players |-> InitRating]
    /\ matches = << >>
    /\ match_players = {}
    /\ alive = {}
    /\ cancelled = {}
    /\ create_failed = {}
    /\ host = [g \in GameIds |-> 0]
    /\ run_done = [g \in GameIds |-> 0]
    /\ rating_updates = [g \in GameIds |-> 0]
    /\ finalize_count = [g \in GameIds |-> 0]

\* ------------------------------------------------ queue (control surface)
\* queue_user: refused when already queued or when the stored rating is
\* falsy (`if not rating`); otherwise coordinator.add_player(id, rating).
queue_user(p) ==
    IF p \in DOMAIN queue THEN [ok |-> FALSE, queue |-> queue]
    ELSE IF rating[p] = 0 THEN [ok |-> FALSE, queue |-> queue]
    ELSE [ok |-> TRUE, queue |-> (p :> rating[p]) @@ queue]

QueueUser(p) ==
    /\ queue_user(p).ok
    /\ queue' = queue_user(p).queue
    /\ UNCHANGED <<side_vars, coord_vars, gc_ready, gc_watchdogs, pending_matches, game_map, game_map_inverse, game_channels,
                   loop_queue, pool_vars, store_vars, hist_vars>>

\* leave_queue: coordinator.remove_player(id) for a queued player
LeaveQueue(p) ==
    /\ p \in DOMAIN queue
    /\ queue' = Restrict(queue, DOMAIN queue \ {p})
    /\ UNCHANGED <<side_vars, coord_vars, gc_ready, gc_watchdogs, pending_matches, game_map, game_map_inverse, game_channels,
                   loop_queue, pool_vars, store_vars, hist_vars>>

\* -------------------------------------------------------------- make_game
\* coordinator.make_game() is called by _start_game_loop and not defined in
\* TheCoordinator.py; modelled from the specification (form_game): 2T queued
\* players are split into two teams of T and removed from the queue, the
\* players that remain queued are returned as the waited players.
FormGame(q, radiant, dire) ==
    [queue |-> Restrict(q, DOMAIN q \ (radiant \cup dire)),
     cut |-> DOMAIN q \ (radiant \cup dire)]

\* Master_Bot.make_game, the roster maps: the radiant players go to
\* game_map_inverse[game_id][0], the dire players and the cut players to
\* game_map_inverse[game_id][1].
MakeRosters(radiant, dire, cut) == [radiant |-> radiant, dire |-> dire \cup cut]

\* DotaTalker.make_game: the first client with no game that is ready
FreeClients == {i \in Clients : client[i].gameID = NoGame /\ client_ready[i]}

\* a loop over the clients run from the last index down
RECURSIVE LastFree(_, _, _, _)
LastFree(i, n, cl, rd) ==
    IF n < i THEN 0
    ELSE IF cl[n].gameID = NoGame /\ rd[n] THEN n
    ELSE LastFree(i, n - 1, cl, rd)

\* DotaTalker.make_game's loop `for i in range(numClients)` from index i on:
\* the first index whose client has no game and is ready, 0 when the loop
\* ends without one (the "-1" return)
RECURSIVE FirstFree(_, _, _, _)
FirstFree(i, n, cl, rd) ==
    IF i > n THEN 0
    ELSE IF cl[i].gameID = NoGame /\ rd[i] THEN i
    ELSE FirstFree(i + 1, n, cl, rd)

\* DotaTalker.make_game with make_lobby on a pool of n clients: the index
\* acquired and the pool it leaves (create_ok: create_practice_lobby returns)
make_game(n, cl, rd, lb, g, radiant, dire, create_ok) ==
    LET i == FirstFree(1, n, cl, rd)
    IN  IF i = 0 THEN [slot |-> 0, client |-> cl, ready |-> rd, lobby |-> lb]
        ELSE [slot |-> i,
              client |-> [cl EXCEPT ![i] = [gameID |-> g,
                                            radiant |-> SteamSet(radiant),
                                            dire |-> SteamSet(dire)]],
              ready |-> [rd EXCEPT ![i] = FALSE],
              lobby |-> IF create_ok
                        THEN [lb EXCEPT ![i] =
                                 [state |-> "UI", id |-> g, launch_reqs |-> 0, kick_reqs |-> {},
                                  reported |-> FALSE, posts |-> 0]]
                        ELSE lb]

\* One pass of the _start_game_loop body: coordinator.make_game(), then
\* Master_Bot.make_game up to and including its call of DotaTalker.make_game
\* (make_lobby; create_ok is whether create_practice_lobby returns or raises).
StartGameUpTo(limit, radiant, dire, create_ok) ==
    LET formed == FormGame(queue, radiant, dire)
        g == game_counter + 1
        ros == MakeRosters(radiant, dire, formed.cut)
    IN  /\ Cardinality(DOMAIN queue) >= 2 * TEAM_SIZE
        /\ game_counter < limit
        /\ radiant \subseteq DOMAIN queue /\ dire \subseteq DOMAIN queue
        /\ radiant \cap dire = {}
        /\ Cardinality(radiant) = TEAM_SIZE /\ Cardinality(dire) = TEAM_SIZE
        /\ queue' = formed.queue
        /\ game_counter' = g
        /\ pending_matches' = pending_matches \cup {g}
        /\ game_map_inverse' = (g :> ros) @@ game_map_inverse
        /\ game_map' = [p \in Players |->
                          IF p \in ros.radiant \cup ros.dire THEN g ELSE game_map[p]]
        /\ game_channels' = game_channels \cup {g}
        /\ IF FreeClients = {}
           THEN /\ create_ok
                /\ UNCHANGED <<pool_vars, alive, create_failed, host>>
           ELSE LET i == FirstFree(1, NumClients, client, client_ready)
                IN  /\ client_ready' = [client_ready EXCEPT ![i] = FALSE]
                    /\ client' = [client EXCEPT ![i] =
                                     [gameID |-> g,
                                      radiant |-> SteamSet(radiant),
                                      dire |-> SteamSet(dire)]]
                    /\ host' = [host EXCEPT ![g] = i]
                    /\ IF create_ok
                       THEN /\ lobby' = [lobby EXCEPT ![i] =
                                           [state |-> "UI", id |-> g, launch_reqs |-> 0, kick_reqs |-> {},
                                            reported |-> FALSE, posts |-> 0]]
                            /\ alive' = alive \cup {g}
                            /\ UNCHANGED create_failed
                       ELSE /\ create_failed' = create_failed \cup {g}
                            /\ UNCHANGED <<lobby, alive>>
        /\ UNCHANGED <<side_vars, coord_vars, gc_ready, gc_watchdogs, loop_queue, rating, matches, match_players,
                       cancelled, run_done, rating_updates, finalize_count>>

\* the formation the control loop runs, up to MaxGames games
StartGame(radiant, dire, create_ok) ==
    StartGameUpTo(MaxGames, radiant, dire, create_ok)

\* ------------------------------------------------------------ cancel_game
\* a cancel_game whose teardown step leaves the client pool as it is
KeepPool(g, cl, rd, lb) == [client |-> cl, ready |-> rd, lobby |-> lb]

\* the teardown step of cancel_game: self.dota_talker.teardown_lobby(game_id)
CancelTeardown(g, cl, rd, lb) == teardown_lobby(g, cl, rd, lb)

CancelGame(g) ==
    /\ g \in DOMAIN game_map_inverse
    /\ LET c == clear_game(g, game_map_inverse, game_map, game_channels)
           t == CancelTeardown(g, client, client_ready, lobby)
       IN  /\ game_map_inverse' = c.gmi
           /\ game_map' = c.gm
           /\ game_channels' = c.gc
           /\ client' = t.client
           /\ client_ready' = t.ready
           /\ lobby' = t.lobby
    /\ cancelled' = cancelled \cup {g}
    /\ alive' = alive \ {g}
    /\ UNCHANGED <<side_vars, coord_vars, gc_ready, gc_watchdogs, queue, pending_matches, loop_queue, store_vars, create_failed,
                   host, run_done, rating_updates, finalize_count>>

\* --------------------------------------------------- force_swap / replace
\* the swap both DotaTalker.swap_players_in_game (on the client's lists of
\* steam ids) and force_swap (on the Controller's sets) perform: it succeeds
\* when a and b are on opposite teams
SwapRoster(ros, a, b) ==
    IF a \in ros.radiant /\ b \in ros.dire
    THEN [ok |-> TRUE,
          ros |-> [ros EXCEPT !.radiant = (ros.radiant \ {a}) \cup {b},
                              !.dire = (ros.dire \ {b}) \cup {a}]]
    ELSE IF a \in ros.dire /\ b \in ros.radiant
    THEN [ok |-> TRUE,
          ros |-> [ros EXCEPT !.radiant = (ros.radiant \ {b}) \cup {a},
                              !.dire = (ros.dire \ {a}) \cup {b}]]
    ELSE [ok |-> FALSE, ros |-> ros]

\* the clients swap_players_in_game looks at: `client.gameID == game_id`
ClientsOf(g) == {i \in Clients : client[i].gameID = g}

\* force_swap as a function of the state: whether it reports success, and the
\* client rosters and Controller maps it leaves. The client's swap comes
\* first; the Controller's maps change only if the client's swap succeeded,
\* the game is in game_map_inverse and the two are on opposite teams there.
force_swap(g, u1, u2) ==
    LET sw == IF ClientsOf(g) = {} THEN [ok |-> FALSE]
              ELSE SwapRoster(client[Min(ClientsOf(g))],
                              fetch_steam_id(u1), fetch_steam_id(u2))
        ctl == IF g \in DOMAIN game_map_inverse
               THEN SwapRoster(game_map_inverse[g], u1, u2) ELSE [ok |-> FALSE]
        done == sw.ok /\ ctl.ok
    IN  [ok |-> done,
         client |-> IF sw.ok THEN [client EXCEPT ![Min(ClientsOf(g))] = sw.ros]
                    ELSE client,
         gmi |-> IF done THEN [game_map_inverse EXCEPT ![g] = ctl.ros]
                 ELSE game_map_inverse,
         gm |-> IF done THEN [game_map EXCEPT ![u1] = g, ![u2] = g] ELSE game_map]

ForceSwap(g, u1, u2) ==
    /\ force_swap(g, u1, u2).client # client
    /\ client' = force_swap(g, u1, u2).client
    /\ game_map_inverse' = force_swap(g, u1, u2).gmi
    /\ game_map' = force_swap(g, u1, u2).gm
    /\ UNCHANGED <<side_vars, coord_vars, gc_ready, gc_watchdogs, queue, pending_matches, game_channels, loop_queue,
                   client_ready, lobby, store_vars, hist_vars>>

\* DotaTalker.replace_player_in_game is called by force_replace and not
\* defined in DotaTalker.py; modelled from the specification (replace): fails
\* if new is in the roster or old is not, else new takes old's place.
replace_player_in_game(ros, old, new) ==
    IF new \in ros.radiant \cup ros.dire \/ old \notin ros.radiant \cup ros.dire
    THEN [ok |-> FALSE, ros |-> ros]
    ELSE IF old \in ros.radiant
    THEN [ok |-> TRUE, ros |-> [ros EXCEPT !.radiant = (@ \ {old}) \cup {new}]]
    ELSE [ok |-> TRUE, ros |-> [ros EXCEPT !.dire = (@ \ {old}) \cup {new}]]

\* force_replace, the Controller's part: old must be in the game's sets, new
\* must not; new takes old's place in old's set.
ReplaceInMaps(ros, old, new) ==
    IF old \notin ros.radiant /\ old \notin ros.dire THEN [ok |-> FALSE, ros |-> ros]
    ELSE IF new \in ros.radiant \/ new \in ros.dire THEN [ok |-> FALSE, ros |-> ros]
    ELSE IF old \in ros.radiant
    THEN [ok |-> TRUE, ros |-> [ros EXCEPT !.radiant = (@ \ {old}) \cup {new}]]
    ELSE [ok |-> TRUE, ros |-> [ros EXCEPT !.dire = (@ \ {old}) \cup {new}]]

\* force_replace as a function of the state: whether it reports success, and
\* the client rosters and Controller maps it leaves. The client's replace
\* comes first (1624) and its failure ends the command; the Controller's
\* checks (1633-1649) and the read of game_channels (1651) come after it.
force_replace(g, old, new) ==
    LET rp == IF ClientsOf(g) = {} THEN [ok |-> FALSE]
              ELSE replace_player_in_game(client[Min(ClientsOf(g))],
                                          fetch_steam_id(old), fetch_steam_id(new))
        ctl == IF g \in DOMAIN game_map_inverse /\ g \in game_channels
               THEN ReplaceInMaps(game_map_inverse[g], old, new) ELSE [ok |-> FALSE]
        done == rp.ok /\ ctl.ok
    IN  [ok |-> done,
         client |-> IF rp.ok THEN [client EXCEPT ![Min(ClientsOf(g))] = rp.ros]
                    ELSE client,
         gmi |-> IF done THEN [game_map_inverse EXCEPT ![g] = ctl.ros]
                 ELSE game_map_inverse,
         gm |-> IF done THEN [game_map EXCEPT ![old] = NoGame, ![new] = g]
                ELSE game_map]

ForceReplace(g, old, new) ==
    /\ force_replace(g, old, new).client # client
    /\ client' = force_replace(g, old, new).client
    /\ game_map_inverse' = force_replace(g, old, new).gmi
    /\ game_map' = force_replace(g, old, new).gm
    /\ UNCHANGED <<side_vars, coord_vars, gc_ready, gc_watchdogs, queue, pending_matches, game_channels, loop_queue,
                   client_ready, lobby, store_vars, hist_vars>>

\* ------------------------------------------- client thread event handlers
\* "ready": a client with no game abandons and leaves whatever lobby it is
\* in; set_ready(i, True) in every case.
Ready(i) ==
    /\ client_ready' = [client_ready EXCEPT ![i] = TRUE]
    /\ gc_ready' = [gc_ready EXCEPT ![i] = TRUE]
    /\ lobby' = IF client[i].gameID = NoGame
                THEN [lobby EXCEPT ![i] = NoLobby] ELSE lobby
    /\ UNCHANGED <<side_vars, coord_vars, gc_watchdogs, ctrl_vars, loop_queue, client, store_vars,
                   hist_vars>>

\* the seat of a member as lobby_changed reads it: on radiant's side, on
\* dire's side, on neither (unassigned, spectator), or not among
\* message.all_members
Seats == {"GOOD", "BAD", "NONE", "ABSENT"}

\* lobby_changed, state UI: the members counted `correct`
CorrectSeats(c, seat) ==
    {s \in SteamIds :
        /\ seat[s] # "ABSENT"
        /\ ~(s \in c.radiant /\ seat[s] # "GOOD")
        /\ ~(s \in c.dire /\ seat[s] # "BAD")
        /\ \/ s \in c.radiant /\ seat[s] = "GOOD"
           \/ s \in c.dire /\ seat[s] = "BAD"}

\* a UI branch that kicks rostered members only
KickedRostered(c, seat) ==
    IF c.gameID = NoGame THEN {}
    ELSE {s \in SteamIds :
             /\ seat[s] # "ABSENT"
             /\ \/ s \in c.radiant /\ seat[s] # "GOOD"
                \/ s \in c.dire /\ seat[s] # "BAD"}

\* lobby_changed, state UI: the members practice_lobby_kick_from_team is
\* called for, following the if/elif chain. A client with no game has
\* radiant = None and the handler raises at the first member.
Kicked(c, seat) ==
    IF c.gameID = NoGame THEN {}
    ELSE {s \in SteamIds :
             /\ seat[s] # "ABSENT"
             /\ IF s \in c.radiant /\ seat[s] # "GOOD" THEN TRUE
                ELSE IF s \in c.dire /\ seat[s] # "BAD" THEN TRUE
                ELSE IF \/ s \in c.radiant /\ seat[s] = "GOOD"
                        \/ s \in c.dire /\ seat[s] = "BAD" THEN FALSE
                ELSE seat[s] \in {"GOOD", "BAD"}}

\* lobby_changed, state UI: launch when `correct == len(radiant + dire)`.
\* A client with no game has radiant = None and the handler raises.
LaunchesLobby(c, seat) ==
    /\ c.gameID # NoGame
    /\ Cardinality(CorrectSeats(c, seat)) = Cardinality(c.radiant) + Cardinality(c.dire)

\* lobby_changed with message.state == UI: launch_practice_lobby() is sent to
\* the platform whenever the update shows everyone seated.
LobbyChangedUI(i, seat) ==
    /\ lobby[i].state = "UI"
    /\ lobby[i].launch_reqs < MaxLaunch
    /\ lobby' = [lobby EXCEPT
                    ![i].kick_reqs = @ \cup Kicked(client[i], seat),
                    ![i].launch_reqs =
                        IF LaunchesLobby(client[i], seat) THEN @ + 1 ELSE @]
    /\ UNCHANGED <<side_vars, coord_vars, gc_ready, gc_watchdogs, ctrl_vars, loop_queue, client, client_ready, store_vars, hist_vars>>

\* the platform serves the kicks: the members are off their teams
PlatformKick(i) ==
    /\ lobby[i].state = "UI"
    /\ lobby[i].kick_reqs # {}
    /\ lobby' = [lobby EXCEPT ![i].kick_reqs = {}]
    /\ UNCHANGED <<side_vars, coord_vars, gc_ready, gc_watchdogs, ctrl_vars, loop_queue, client, client_ready, store_vars, hist_vars>>

\* the platform serves the launch: the lobby goes from UI to RUN
PlatformLaunch(i) ==
    /\ lobby[i].state = "UI"
    /\ lobby[i].launch_reqs > 0
    /\ lobby' = [lobby EXCEPT ![i].state = "RUN", ![i].launch_reqs = 0,
                              ![i].kick_reqs = {}]
    /\ UNCHANGED <<side_vars, coord_vars, gc_ready, gc_watchdogs, ctrl_vars, loop_queue, client, client_ready, store_vars, hist_vars>>

\* _start_gc_watchdog(client, game_id): a prior future of the game is popped
\* and cancelled, _watch is scheduled on the control loop and its future
\* stored under game_id
start_gc_watchdog(wd, g) == (g :> "pending") @@ wd

\* the first step of _watch on the control loop:
\* `started_at = self._game_started_at.get(game_id, ...)`. No code assigns
\* DotaTalker._game_started_at, the read raises AttributeError, the only
\* handler of the coroutine is for CancelledError: the future ends with the
\* exception before the loop `while client.gameID == game_id` is entered.
Watch(g) ==
    /\ g \in DOMAIN gc_watchdogs
    /\ gc_watchdogs[g] = "pending"
    /\ gc_watchdogs' = [gc_watchdogs EXCEPT ![g] = "failed"]
    /\ UNCHANGED <<side_vars, coord_vars, gc_ready, ctrl_vars, loop_queue, pool_vars, store_vars,
                   hist_vars>>

\* lobby_changed with message.state == RUN: on_game_started is scheduled on
\* the control loop when the client's game is in pending_matches. The
\* platform reports a running lobby at least once (reported). Then the
\* watchdog of the client's game is started.
LobbyChangedRUN(i) ==
    /\ lobby[i].state = "RUN"
    /\ IF client[i].gameID \in pending_matches
       THEN /\ Len(loop_queue) < MaxLoopQueue
            /\ loop_queue' = Append(loop_queue,
                                    [kind |-> "started", game_id |-> client[i].gameID,
                                     match_id |-> lobby[i].id,
                                     outcome |-> OUTCOME_UNKNOWN])
       ELSE UNCHANGED loop_queue
    /\ lobby' = [lobby EXCEPT ![i].reported = TRUE]
    /\ gc_watchdogs' = start_gc_watchdog(gc_watchdogs, client[i].gameID)
    /\ UNCHANGED <<side_vars, coord_vars, gc_ready, ctrl_vars, client, client_ready, store_vars, hist_vars>>

\* the platform ends the match: the lobby goes from RUN to POSTGAME
PlatformEnd(i) ==
    /\ lobby[i].state = "RUN"
    /\ lobby[i].reported
    /\ lobby' = [lobby EXCEPT ![i].state = "POSTGAME"]
    /\ UNCHANGED <<side_vars, coord_vars, gc_ready, gc_watchdogs, ctrl_vars, loop_queue, client, client_ready, store_vars, hist_vars>>

\* lobby_changed with message.state == POSTGAME: leave the lobby, schedule
\* on_game_ended(dotaClient.gameID, message), reset the client, set_ready.
\* The handler's `self._stop_gc_watchdog(dotaClient.gameID)` passes one
\* argument to a method of two (client, game_id): the call raises TypeError,
\* which the handler logs, and _gc_watchdogs stays as it is.
\* The platform may deliver the message more than once.
LobbyChangedPOSTGAME(i, outcome) ==
    /\ lobby[i].state = "POSTGAME"
    /\ lobby[i].posts < MaxPostgame
    /\ Len(loop_queue) < MaxLoopQueue
    /\ loop_queue' = Append(loop_queue,
                            [kind |-> "ended", game_id |-> client[i].gameID,
                             match_id |-> lobby[i].id, outcome |-> outcome])
    /\ client' = [client EXCEPT ![i] = IdleClient]
    /\ client_ready' = [client_ready EXCEPT ![i] = TRUE]
    /\ lobby' = [lobby EXCEPT ![i].posts = @ + 1]
    /\ alive' = alive \ {client[i].gameID}
    /\ UNCHANGED <<side_vars, coord_vars, gc_ready, gc_watchdogs, ctrl_vars, store_vars, cancelled, create_failed, host,
                   run_done, rating_updates, finalize_count>>

\* -------------------------------------------------------- on_game_started
\* the match_players rows on_game_started inserts, in statement order:
\* radiant_ids with team 0, then dire_ids with team 1
RECURSIVE TeamRows(_, _, _)
TeamRows(m, order, team) ==
    IF order = << >> THEN << >>
    ELSE <<[match_id |-> m, discord_id |-> Head(order), team |-> team]>>
         \o TeamRows(m, Tail(order), team)

PlayerRows(m, ros) ==
    TeamRows(m, Asc(ros.radiant), 0) \o TeamRows(m, Asc(ros.dire), 1)

\* DB.execute per row, each committed on its own: statement number k raises
\* when the store fails there (k = fail_at) or when the row's key
\* (match_id, discord_id) is already present; rows inserted before stay.
RECURSIVE InsertRows(_, _, _, _)
InsertRows(rows, mp, k, fail_at) ==
    IF rows = << >> THEN [mp |-> mp, ok |-> TRUE]
    ELSE IF k = fail_at THEN [mp |-> mp, ok |-> FALSE]
    ELSE IF \E r \in mp : /\ r.match_id = Head(rows).match_id
                          /\ r.discord_id = Head(rows).discord_id
    THEN [mp |-> mp, ok |-> FALSE]
    ELSE InsertRows(Tail(rows), mp \cup {Head(rows)}, k + 1, fail_at)

\* self.pending_matches.remove(game_id), the last statement of the try block
PendingKept(pm, g) == pm
PendingAfterStart(pm, g) == pm \ {g}

\* an on_game_started that takes every event for a pending one
NeverStale(pm, g) == FALSE
\* `if game_id not in self.pending_matches: return`
Stale(pm, g) == g \notin pm

\* on_game_started(game_id, game_info), run by the control loop. fail_at is
\* the statement at which the store raises (0: none; 1: the matches insert).
OnGameStarted(fail_at) ==
    /\ loop_queue # << >>
    /\ Head(loop_queue).kind = "started"
    /\ loop_queue' = Tail(loop_queue)
    /\ LET g == Head(loop_queue).game_id
           m == Head(loop_queue).match_id
           ros == IF g \in DOMAIN game_map_inverse THEN game_map_inverse[g]
                  ELSE [radiant |-> {}, dire |-> {}]
           ins == InsertRows(PlayerRows(m, ros), match_players, 2, fail_at)
       IN  IF Stale(pending_matches, g) \/ fail_at = 1
           THEN UNCHANGED <<pending_matches, matches, match_players, run_done>>
           ELSE /\ matches' = IF m \in DOMAIN matches THEN matches
                              ELSE (m :> [state |-> LS_RUN, winning_team |-> NoWinner])
                                   @@ matches
                /\ match_players' = ins.mp
                /\ IF ins.ok
                   THEN /\ pending_matches' = PendingAfterStart(pending_matches, g)
                        /\ run_done' = [run_done EXCEPT ![g] = @ + 1]
                   ELSE UNCHANGED <<pending_matches, run_done>>
    /\ UNCHANGED <<side_vars, coord_vars, gc_ready, gc_watchdogs, queue, game_map, game_map_inverse, game_channels, pool_vars,
                   game_counter, rating, alive, cancelled, create_failed, host,
                   rating_updates, finalize_count>>

\* ---------------------------------------------------------- on_game_ended
\* the ratings on_game_ended writes for the rosters it captured
NewRatings(ros, outcome, rt) ==
    LET r_radiant == power_mean(RatingsOf(Asc(ros.radiant), rt))
        r_dire == power_mean(RatingsOf(Asc(ros.dire), rt))
        s_radiant == IF outcome = OUTCOME_RADIANT THEN 1 ELSE 0
        d == r_dire - r_radiant
    IN  [p \in Players |->
            IF p \in ros.dire THEN rt[p] + DireDelta(d, s_radiant)
            ELSE IF p \in ros.radiant THEN rt[p] + RadiantDelta(d, s_radiant)
            ELSE rt[p]]

\* on_game_ended(game_id, game_info), run by the control loop: the rating
\* block (skipped by KeyError when game_id is not in game_map_inverse), the
\* UPDATE of the matches row, then teardown_lobby(game_id).
OnGameEnded ==
    /\ loop_queue # << >>
    /\ Head(loop_queue).kind = "ended"
    /\ loop_queue' = Tail(loop_queue)
    /\ LET g == Head(loop_queue).game_id
           m == Head(loop_queue).match_id
           outcome == Head(loop_queue).outcome
           c == clear_game(g, game_map_inverse, game_map, game_channels)
           t == teardown_lobby(g, client, client_ready, lobby)
       IN  /\ IF g \in DOMAIN game_map_inverse
              THEN /\ game_map_inverse' = c.gmi
                   /\ game_map' = c.gm
                   /\ game_channels' = c.gc
                   /\ IF \/ PowerMeanRaises(RatingsOf(Asc(game_map_inverse[g].radiant), rating))
                         \/ PowerMeanRaises(RatingsOf(Asc(game_map_inverse[g].dire), rating))
                      THEN UNCHANGED <<rating, rating_updates>>
                      ELSE /\ rating' = NewRatings(game_map_inverse[g], outcome, rating)
                           /\ rating_updates' = [rating_updates EXCEPT ![g] = @ + 1]
              ELSE UNCHANGED <<game_map_inverse, game_map, game_channels, rating,
                               rating_updates>>
           /\ IF m \in DOMAIN matches
              THEN /\ matches' = [matches EXCEPT
                                     ![m] = [state |-> GS_POST_GAME,
                                             winning_team |-> outcome]]
                   /\ finalize_count' = [finalize_count EXCEPT ![m] = @ + 1]
              ELSE UNCHANGED <<matches, finalize_count>>
           /\ client' = t.client
           /\ client_ready' = t.ready
           /\ lobby' = t.lobby
           /\ alive' = alive \ {g}
    /\ UNCHANGED <<side_vars, coord_vars, gc_ready, gc_watchdogs, queue, pending_matches, game_counter, match_players,
                   cancelled, create_failed, host, run_done>>

\* ------------------------------------------------------------------- Next
Next ==
    \/ \E p \in Players : QueueUser(p)
    \/ \E p \in Players : LeaveQueue(p)
    \/ \E radiant, dire \in SUBSET Players, create_ok \in BOOLEAN :
           StartGame(radiant, dire, create_ok)
    \/ \E g \in GameIds : CancelGame(g)
    \/ \E g \in GameIds, u1, u2 \in Players : ForceSwap(g, u1, u2)
    \/ \E g \in GameIds, old, new \in Players : ForceReplace(g, old, new)
    \/ \E i \in Clients : Ready(i)
    \/ \E i \in Clients, seat \in [SteamIds -> Seats] : LobbyChangedUI(i, seat)
    \/ \E i \in Clients : PlatformKick(i)
    \/ \E i \in Clients : PlatformLaunch(i)
    \/ \E i \in Clients : LobbyChangedRUN(i)
    \/ \E g \in GameIds : Watch(g)
    \/ \E i \in Clients : PlatformEnd(i)
    \/ \E i \in Clients, outcome \in Outcomes : LobbyChangedPOSTGAME(i, outcome)
    \/ \E fail_at \in 0..(1 + 2 * TEAM_SIZE) : OnGameStarted(fail_at)
    \/ OnGameEnded

Spec == Init /\ [][Next]_vars

\* ------------------------------------------------------------- properties
\* client slots in use: clients that hold a game
SlotsInUse == {i \in Clients : client[i].gameID # NoGame}

\* C1: in every reachable state the number of client slots in use equals the
\* number of alive games (lobby created, neither ended nor cancelled), and
\* every slot in use is held for an alive game.
C1_SlotAccounting ==
    /\ Cardinality(SlotsInUse) = Cardinality(alive)
    /\ \A i \in SlotsInUse : client[i].gameID \in alive

\* C2: for each game the rating update of on_game_ended is applied at most
\* once and the match row of the game is finalized at most once, whatever
\* POSTGAME events the supervisor delivers.
C2_EndedAtMostOnce ==
    \A g \in GameIds : rating_updates[g] <= 1 /\ finalize_count[g] <= 1

\* C3: for each game on_game_started completes at most once, and once it has
\* completed the game is no longer pending, so every further RUN event for
\* the game is dropped.
C3_StartedAtMostOnce ==
    \A g \in GameIds :
        /\ run_done[g] <= 1
        /\ run_done[g] = 1 => g \notin pending_matches

\* C3 witness: on_game_started completed for a game and a further RUN event
\* for the same game is waiting on the control loop.
C3_Witness ==
    \E g \in GameIds :
        /\ run_done[g] = 1
        /\ loop_queue # << >>
        /\ Head(loop_queue).kind = "started"
        /\ Head(loop_queue).game_id = g

\* C4: for every game the Controller holds, the radiant and dire rosters are
\* disjoint and each has exactly TEAM_SIZE players.
C4_Rosters ==
    \A g \in DOMAIN game_map_inverse :
        /\ game_map_inverse[g].radiant \cap game_map_inverse[g].dire = {}
        /\ Cardinality(game_map_inverse[g].radiant) = TEAM_SIZE
        /\ Cardinality(game_map_inverse[g].dire) = TEAM_SIZE

\* C5: when make_game finds no free client, every player that was queued
\* before the formation is queued after it (the selected 2T are put back).
C5_Requeued ==
    [][(game_counter' # game_counter /\ FreeClients = {})
          => DOMAIN queue \subseteq DOMAIN queue']_vars

C7_CancelledGone ==
    \A g \in cancelled : g \notin pending_matches /\ g \notin DOMAIN game_map_inverse

\* C8: no client holds a game whose lobby creation failed (the slot acquired
\* for it was released).
C8_CreateFailureReleases ==
    \A i \in Clients : client[i].gameID \notin create_failed

\* C9: the rating update and the finalization of a game are applied only
\* after on_game_started has completed for it.
C9_EndedAfterRunning ==
    \A g \in GameIds :
        (rating_updates[g] > 0 \/ finalize_count[g] > 0) => run_done[g] >= 1

\* C10: a step that inserts the match row of a game also inserts the
\* match_players row of every player in the game's rosters.
C10_AllOrNothing ==
    [][\A m \in DOMAIN matches' \ DOMAIN matches :
          m \in DOMAIN game_map_inverse =>
              \A p \in game_map_inverse[m].radiant \cup game_map_inverse[m].dire :
                  \E r \in match_players' : r.match_id = m /\ r.discord_id = p]_vars

\* ------------------------------------------------ rating update in isolation
\* on_game_ended applied to one finished game (radiant {1}, dire {2}, already
\* reported RUN and POSTGAME), started from every choice of stored ratings
\* and reported outcome. set_rating lets a moderator store any rating.
EloRatings == {1, 16, 3000, 6000}

InitElo ==
    /\ InitCoordinator
    /\ InitSide
    /\ queue = << >>
    /\ pending_matches = {}
    /\ game_map = [p \in Players |-> IF p \in {1, 2} THEN 1 ELSE NoGame]
    /\ game_map_inverse = (1 :> [radiant |-> {1}, dire |-> {2}])
    /\ game_channels = {1}
    /\ \E outcome \in Outcomes :
           loop_queue = <<[kind |-> "ended", game_id |-> 1, match_id |-> 1,
                           outcome |-> outcome]>>
    /\ client = [i \in Clients |-> IdleClient]
    /\ client_ready = [i \in Clients |-> TRUE]
    /\ gc_ready = [i \in Clients |-> TRUE]
    /\ gc_watchdogs = << >>
    /\ lobby = [i \in Clients |->
                  IF i = 1 THEN [state |-> "POSTGAME", id |-> 1, launch_reqs |-> 0, kick_reqs |-> {},
                                 reported |-> TRUE, posts |-> 1]
                  ELSE NoLobby]
    /\ game_counter = 1
    /\ rating \in [Players -> EloRatings]
    /\ matches = (1 :> [state |-> LS_RUN, winning_team |-> NoWinner])
    /\ match_players = {[match_id |-> 1, discord_id |-> 1, team |-> 0],
                        [match_id |-> 1, discord_id |-> 2, team |-> 1]}
    /\ alive = {}
    /\ cancelled = {}
    /\ create_failed = {}
    /\ host = [g \in GameIds |-> IF g = 1 THEN 1 ELSE 0]
    /\ run_done = [g \in GameIds |-> IF g = 1 THEN 1 ELSE 0]
    /\ rating_updates = [g \in GameIds |-> 0]
    /\ finalize_count = [g \in GameIds |-> 0]

NextElo == OnGameEnded

SpecElo == InitElo /\ [][NextElo]_vars

\* the event on_game_ended is about to process, when there is one
EndedHead == loop_queue # << >> /\ Head(loop_queue).kind = "ended"

\* C11: a step that processes an ended event whose outcome is unknown changes
\* no player's rating.
C11_UnknownNoRating ==
    [][(EndedHead /\ loop_queue' = Tail(loop_queue)
          /\ Head(loop_queue).outcome = OUTCOME_UNKNOWN) => rating' = rating]_vars

\* C12 (as stated): when the rating update is applied for a match that
\* radiant won, every radiant rating grows strictly and every dire rating
\* falls strictly.
C12_StrictAlways ==
    [][\A g \in DOMAIN game_map_inverse :
          (rating_updates'[g] > rating_updates[g]
             /\ Head(loop_queue).outcome = OUTCOME_RADIANT)
          => /\ \A p \in game_map_inverse[g].radiant : rating'[p] > rating[p]
             /\ \A p \in game_map_inverse[g].dire : rating'[p] < rating[p]]_vars

\* the gap of the team aggregates the update of game g is computed from
TeamGap(g) ==
    power_mean(RatingsOf(Asc(game_map_inverse[g].radiant), rating))
    - power_mean(RatingsOf(Asc(game_map_inverse[g].dire), rating))

\* C12 (amended): when the rating update is applied for a match that radiant
\* won, no radiant rating falls and no dire rating grows, and the changes are
\* strict whenever radiant's aggregate exceeds dire's by less than 5978
\* (with ELO_K = 32; from there on the update rounds to no change).
C12_StrictBelowGap ==
    [][\A g \in DOMAIN game_map_inverse :
          (rating_updates'[g] > rating_updates[g]
             /\ Head(loop_queue).outcome = OUTCOME_RADIANT)
          => /\ \A p \in game_map_inverse[g].radiant : rating'[p] >= rating[p]
             /\ \A p \in game_map_inverse[g].dire : rating'[p] <= rating[p]
             /\ TeamGap(g) < EloSteps[ELO_K]
                  => /\ \A p \in game_map_inverse[g].radiant : rating'[p] > rating[p]
                     /\ \A p \in game_map_inverse[g].dire : rating'[p] < rating[p]]_vars

\* C12 witness: a radiant win was applied to two players who both had rating
\* 16: radiant has 32 and dire has 0.
C12_Witness ==
    /\ rating_updates[1] = 1
    /\ 1 \in DOMAIN matches /\ matches[1].winning_team = OUTCOME_RADIANT
    /\ rating[1] = 32 /\ rating[2] = 0

\* C13: for every lobby at most one launch_practice_lobby request is
\* outstanding, however many UI updates show everyone correctly seated.
C13_LaunchOnce == \A i \in Clients : lobby[i].launch_reqs <= 1

\* a and b are on opposite teams of the roster
Opposite(ros, a, b) ==
    \/ a \in ros.radiant /\ b \in ros.dire
    \/ a \in ros.dire /\ b \in ros.radiant

\* the roster with a and b exchanged and everyone else where they were
Exchanged(ros, a, b) ==
    [radiant |-> (ros.radiant \ {a, b}) \cup ({a, b} \cap ros.dire),
     dire |-> (ros.dire \ {a, b}) \cup ({a, b} \cap ros.radiant)]

\* C14: in every reachable state and for every game of the Controller,
\* swap(a, b) reports success exactly when a and b are on opposite teams; on
\* success the roster is the old one with a and b exchanged; on failure the
\* Controller's rosters and the clients' rosters are unchanged.
C14_Swap ==
    \A g \in DOMAIN game_map_inverse : \A a, b \in Players :
        LET r == force_swap(g, a, b)
        IN  /\ r.ok <=> Opposite(game_map_inverse[g], a, b)
            /\ r.ok => r.gmi[g] = Exchanged(game_map_inverse[g], a, b)
            /\ ~r.ok => r.gmi = game_map_inverse /\ r.client = client

\* the members of both teams of a roster
Members(ros) == ros.radiant \cup ros.dire

\* the roster with new in old's place
Replaced(ros, old, new) ==
    [radiant |-> IF old \in ros.radiant THEN (ros.radiant \ {old}) \cup {new}
                 ELSE ros.radiant,
     dire |-> IF old \in ros.dire THEN (ros.dire \ {old}) \cup {new}
              ELSE ros.dire]

\* C15: in every reachable state and for every game of the Controller,
\* replace(old, new) with new in the game's roster or old not in it fails
\* and changes neither the clients' rosters nor the Controller's; when it
\* succeeds, new has old's place in the Controller's roster and in the
\* client's.
C15_Replace ==
    \A g \in DOMAIN game_map_inverse : \A old, new \in Players :
        LET r == force_replace(g, old, new)
            ros == game_map_inverse[g]
        IN  /\ (new \in Members(ros) \/ old \notin Members(ros)) =>
                   ~r.ok /\ r.client = client /\ r.gmi = game_map_inverse
            /\ r.ok =>
                   /\ r.gmi[g] = Replaced(ros, old, new)
                   /\ \A i \in ClientsOf(g) :
                          [radiant |-> r.client[i].radiant, dire |-> r.client[i].dire]
                              = Replaced(client[i], fetch_steam_id(old),
                                         fetch_steam_id(new))

\* C17: every player of the model has a stored rating; in every reachable
\* state a player who is not queued is accepted by queue_user and added to
\* the queue with the stored rating, whatever integer >= 0 that rating is.
C17_RatedAccepted ==
    \A p \in Players :
        (p \notin DOMAIN queue /\ rating[p] >= 0) =>
            /\ queue_user(p).ok
            /\ queue_user(p).queue = (p :> rating[p]) @@ queue

\* ===================================================== TheCoordinator.py
\* class Coordinator: the queue kept in three indexes, and game creation
\* around the longest-waiting user. The class is written for games of ten
\* (`len(self.usersFIFO)<10`, `combinations(thePool, 9)`); the model keeps its
\* arithmetic with GameSize = 2 * CoordTeam in place of 10.
CoordTeam == 1
GameSize == 2 * CoordTeam
\* config.json 'lookAround': the rating window read by findUserPool
lookAround == 2 * CoordTeam
NumCoordIds == 3
MaxInserts == 3
MaxCalls == 1
CoordIds == 1..NumCoordIds
CoordRatings == {1, 2}

\* a User object; uid stands for the object's identity (User defines no
\* __eq__, so == and `in` compare identities)
User(uid, discordID, r, t) ==
    [uid |-> uid, discordID |-> discordID, rating |-> r, entranceTime |-> t]
\* None, as usersByID.get returns it for an absent id
NoUser == User(0, 0, 0, 0)

\* User.getRating / User.getEntranceTime, selected by name
KeyOf(u, key) == IF key = "rating" THEN u.rating ELSE u.entranceTime

Max(S) == CHOOSE x \in S : \A y \in S : x >= y
Range(s) == {s[i] : i \in DOMAIN s}
\* the members of a set in the order of a list
Filter(s, S) == SelectSeq(s, LAMBDA u : u \in S)
\* list.pop(i) and list.insert(i, x), i counted from 0
Pop(list, i) == SubSeq(list, 1, i) \o SubSeq(list, i + 2, Len(list))
InsertAt(list, i, x) == SubSeq(list, 1, i) \o <<x>> \o SubSeq(list, i + 1, Len(list))
\* itertools.combinations(S, k), as sets
Combinations(S, k) == {X \in SUBSET S : Cardinality(X) = k}

\* findIndexBS, the binary search loop; indices count from 0 as in the code
RECURSIVE BSLoop(_, _, _, _, _)
BSLoop(user, listOfUsers, key, curStart, curEnd) ==
    LET curIdx == (curStart + curEnd) \div 2
    IN  IF curStart # curEnd
           /\ KeyOf(listOfUsers[curIdx + 1], key) # KeyOf(user, key)
        THEN IF KeyOf(listOfUsers[curIdx + 1], key) < KeyOf(user, key)
             THEN BSLoop(user, listOfUsers, key, curIdx + 1, curEnd)
             ELSE BSLoop(user, listOfUsers, key, curStart, curIdx)
        ELSE curIdx

\* findIndexBS: the index of user, else (user absent) the index the scan over
\* the equal keys stops at
findIndexBS(user, listOfUsers, key) ==
    LET curIdx == BSLoop(user, listOfUsers, key, 0, Len(listOfUsers))
        same(i) == KeyOf(listOfUsers[i + 1], key) = KeyOf(user, key)
        below == {i \in 0..(curIdx - 1) :
                     /\ listOfUsers[i + 1] = user
                     /\ \A j \in i..(curIdx - 1) : same(j)}
        above == {i \in (curIdx + 1)..(Len(listOfUsers) - 1) :
                     /\ listOfUsers[i + 1] = user
                     /\ \A j \in (curIdx + 1)..i : same(j)}
    IN  IF curIdx = Len(listOfUsers) THEN curIdx
        ELSE IF ~same(curIdx) \/ listOfUsers[curIdx + 1] = user THEN curIdx
        ELSE IF below # {} THEN Max(below)
        ELSE IF above # {} THEN Min(above)
        ELSE Min({i \in (curIdx + 1)..Len(listOfUsers) :
                     i = Len(listOfUsers) \/ ~same(i)})

\* findUserPool: the users around `user` in usersByRating, user's index left out
findUserPool(byRating, user) ==
    LET idx == findIndexBS(user, byRating, "rating")
        half == lookAround \div 2
        preferredStart == idx - half
        startCut == IF preferredStart > 0 THEN 0 ELSE 0 - preferredStart
        preferredEnd == idx + half
        endCut == IF preferredEnd < Len(byRating) THEN 0
                  ELSE preferredEnd - Len(byRating) + 1
        start == Max({preferredStart - endCut, 0})
        end == Min({preferredEnd + startCut, Len(byRating) - 1})
    IN  SubSeq(byRating, start + 1, idx) \o SubSeq(byRating, idx + 2, end + 1)

\* the Coordinator's fields as one value; raised: an exception has ended the
\* running callback (what it did before the exception stays done)
Coord ==
    [usersByID |-> usersByID, usersFIFO |-> usersFIFO,
     usersByRating |-> usersByRating, waitingForTen |-> waitingForTen,
     dispatched |-> dispatched, raised |-> FALSE]

\* __delete(user): pop from usersFIFO and from usersByRating at the index
\* findIndexBS gives (IndexError when it is len), then usersByID.__delitem__
\* (KeyError when the id is absent)
do_delete(c, user) ==
    IF user = NoUser THEN c
    ELSE LET i == findIndexBS(user, c.usersFIFO, "entranceTime")
             j == findIndexBS(user, c.usersByRating, "rating")
         IN  IF i >= Len(c.usersFIFO) THEN [c EXCEPT !.raised = TRUE]
             ELSE IF j >= Len(c.usersByRating)
             THEN [c EXCEPT !.usersFIFO = Pop(@, i), !.raised = TRUE]
             ELSE IF user.discordID \notin DOMAIN c.usersByID
             THEN [c EXCEPT !.usersFIFO = Pop(@, i),
                            !.usersByRating = Pop(@, j), !.raised = TRUE]
             ELSE [c EXCEPT !.usersFIFO = Pop(@, i),
                            !.usersByRating = Pop(@, j),
                            !.usersByID = Restrict(@, DOMAIN @ \ {user.discordID})]

\* __create, lines 221-222: __delete for each user of the game, in order; an
\* exception ends the loop
RECURSIVE DeleteAll(_, _)
DeleteAll(c, users) ==
    IF users = << >> \/ c.raised THEN c
    ELSE DeleteAll(do_delete(c, Head(users)), Tail(users))

\* bestGameUsingExactlyThesePlayers: the two-team splits it scores; teamB is
\* the users not in teamA
GamesOf(users) ==
    {[teamA |-> Filter(users, A), teamB |-> Filter(users, Range(users) \ A)] :
        A \in Combinations(Range(users), Len(users) \div 2)}

\* __create, lines 210-220: the games scored, over every GameSize - 1 users
\* of the pool together with the longest-waiting user. gameImbalance depends
\* on config.json (pNorm, qNorm, alpha), so the best game is any of them.
CandidateGames(c) ==
    LET theUser == c.usersFIFO[1]
        thePool == findUserPool(c.usersByRating, theUser)
    IN  UNION {GamesOf(Filter(thePool, ninePlayers) \o <<theUser>>) :
                  ninePlayers \in Combinations(Range(thePool), GameSize - 1)}

\* a size test that lets a queue one user short of a game through
NotEnoughBelow(c) == Len(c.usersFIFO) < GameSize - 1

\* __create, line 206: not enough players in queue
NotEnoughPlayers(c) == Len(c.usersFIFO) < GameSize

\* __create: the states it can leave. With no game scored bestGame is None
\* and line 221 raises.
do_create(c) ==
    IF NotEnoughPlayers(c) THEN {[c EXCEPT !.waitingForTen = TRUE]}
    ELSE IF CandidateGames(c) = {} THEN {[c EXCEPT !.raised = TRUE]}
    ELSE {LET d == DeleteAll(c, bestGame.teamA \o bestGame.teamB)
          IN  IF d.raised THEN d
              ELSE [d EXCEPT !.dispatched = Append(@, bestGame)] :
             bestGame \in CandidateGames(c)}

\* __insert(discordID, rating) for the User object newUser
do_insert(c, newUser) ==
    LET c1 == [c EXCEPT
                  !.usersFIFO = Append(@, newUser),
                  !.usersByRating =
                      InsertAt(@, findIndexBS(newUser, c.usersByRating, "rating"),
                               newUser),
                  !.usersByID = (newUser.discordID :> newUser) @@ @]
    IN  IF c1.waitingForTen /\ Len(c1.usersFIFO) = GameSize
        THEN do_create([c1 EXCEPT !.waitingForTen = FALSE])
        ELSE {c1}

\* the fields a callback leaves
Leaves(c) ==
    /\ usersByID' = c.usersByID
    /\ usersFIFO' = c.usersFIFO
    /\ usersByRating' = c.usersByRating
    /\ waitingForTen' = c.waitingForTen
    /\ dispatched' = c.dispatched

Call(fn, discordID, r, user) ==
    [fn |-> fn, discordID |-> discordID, rating |-> r, user |-> user]
InsertsScheduled == Cardinality({k \in DOMAIN calls : calls[k].fn = "insert"})

\* insert(discordID, rating): call_soon(__insert, discordID, rating)
Insert(discordID, r) ==
    /\ Len(calls) < MaxCalls
    /\ created + InsertsScheduled < MaxInserts
    /\ calls' = Append(calls, Call("insert", discordID, r, NoUser))
    /\ UNCHANGED <<main_vars, index_vars, waitingForTen, clock, created, dispatched>>

\* delete(discordID): call_soon(__delete, usersByID.get(discordID)); the User
\* is looked up when delete is called, not when __delete runs
Delete(discordID) ==
    /\ Len(calls) < MaxCalls
    /\ calls' = Append(calls, Call("delete", discordID, 0,
                                   IF discordID \in DOMAIN usersByID
                                   THEN usersByID[discordID] ELSE NoUser))
    /\ UNCHANGED <<main_vars, index_vars, waitingForTen, clock, created, dispatched>>

\* create(): call_soon(__create)
Create ==
    /\ Len(calls) < MaxCalls
    /\ calls' = Append(calls, Call("create", 0, 0, NoUser))
    /\ UNCHANGED <<main_vars, index_vars, waitingForTen, clock, created, dispatched>>

\* the event loop runs a scheduled __insert; time.time() has not gone back
RunInsert ==
    /\ calls # << >> /\ Head(calls).fn = "insert"
    /\ \E tick \in {0, 1} :
           /\ clock' = clock + tick
           /\ \E c \in do_insert(Coord, User(created + 1, Head(calls).discordID,
                                             Head(calls).rating, clock + tick)) :
                  Leaves(c)
    /\ created' = created + 1
    /\ calls' = Tail(calls)
    /\ UNCHANGED main_vars

\* the event loop runs a scheduled __delete
RunDelete ==
    /\ calls # << >> /\ Head(calls).fn = "delete"
    /\ Leaves(do_delete(Coord, Head(calls).user))
    /\ calls' = Tail(calls)
    /\ UNCHANGED <<main_vars, clock, created>>

\* the event loop runs a scheduled __create
RunCreate ==
    /\ calls # << >> /\ Head(calls).fn = "create"
    /\ \E c \in do_create(Coord) : Leaves(c)
    /\ calls' = Tail(calls)
    /\ UNCHANGED <<main_vars, clock, created>>

\* call_later(90, __create): the timer of a queued user fires
TimerFires ==
    /\ usersFIFO # << >>
    /\ \E c \in do_create(Coord) : Leaves(c)
    /\ UNCHANGED <<main_vars, calls, clock, created>>

NextCoord ==
    \/ \E discordID \in CoordIds, r \in CoordRatings : Insert(discordID, r)
    \/ \E discordID \in CoordIds : Delete(discordID)
    \/ Create
    \/ RunInsert
    \/ RunDelete
    \/ RunCreate
    \/ TimerFires

SpecCoord == Init /\ [][NextCoord]_vars

\* --------------------------------------------- properties of the Coordinator
\* the players (discord ids) of a list of Users
IdsOf(users) == {users[i].discordID : i \in DOMAIN users}

\* C16: each player is in the queue at most once: no two entries of
\* usersFIFO carry the same discord id (so an insert of a queued player
\* leaves the queue as it was).
C16_AtMostOnce ==
    \A i, j \in DOMAIN usersFIFO :
        i # j => usersFIFO[i].discordID # usersFIFO[j].discordID

\* the game a __create outcome c dispatched, when it dispatched one
Formed(c) == ~c.raised /\ Len(c.dispatched) = Len(dispatched) + 1
GameOf(c) == c.dispatched[Len(c.dispatched)]
Selected(c) == Range(GameOf(c).teamA) \cup Range(GameOf(c).teamB)

C20_NotEnough ==
    Len(usersFIFO) < GameSize =>
        do_create(Coord) = {[Coord EXCEPT !.waitingForTen = TRUE]}

\* a __create has run on a queue of one user and left it waiting
C20_Witness ==
    /\ waitingForTen
    /\ Len(usersFIFO) = GameSize - 1
    /\ Len(usersByRating) = GameSize - 1
    /\ dispatched = << >>

\* the queue's indexes without player p
WithoutPlayer(c, p) ==
    [usersFIFO |-> SelectSeq(c.usersFIFO, LAMBDA u : u.discordID # p),
     usersByRating |-> SelectSeq(c.usersByRating, LAMBDA u : u.discordID # p),
     usersByID |-> Restrict(c.usersByID, DOMAIN c.usersByID \ {p})]

\* C21: every step in which the event loop runs the __delete scheduled by
\* delete(p) leaves each index equal to what it was without p: p's entry is
\* removed when p is queued, and nothing changes when p is not.
C21_DeleteOnlyP ==
    [][(calls # << >> /\ Head(calls).fn = "delete" /\ calls' = Tail(calls)) =>
          /\ usersFIFO' = WithoutPlayer(Coord, Head(calls).discordID).usersFIFO
          /\ usersByRating' =
                 WithoutPlayer(Coord, Head(calls).discordID).usersByRating
          /\ usersByID' = WithoutPlayer(Coord, Head(calls).discordID).usersByID]_vars

\* ================================================ the client pool on its own
\* DotaTalker.make_game on a pool of NumPoolClients clients (config
\* "numClients"), from every combination of clients holding a game or not
\* and ready or not. Busy client i holds game i; new games get the next ids.
NumPoolClients == 3
MaxPoolGames == 2
PoolClients == 1..NumPoolClients

BusyClient(i) == [gameID |-> i, radiant |-> SteamSet({1}), dire |-> SteamSet({2})]

InitPool ==
    /\ InitCoordinator
    /\ InitSide
    /\ queue = << >>
    /\ pending_matches = {}
    /\ game_map = [p \in Players |-> NoGame]
    /\ game_map_inverse = << >>
    /\ game_channels = {}
    /\ loop_queue = << >>
    /\ \E busy \in SUBSET PoolClients :
           /\ client = [i \in PoolClients |->
                           IF i \in busy THEN BusyClient(i) ELSE IdleClient]
           /\ lobby = [i \in PoolClients |->
                          IF i \in busy
                          THEN [state |-> "UI", id |-> i, launch_reqs |-> 0, kick_reqs |-> {},
                                reported |-> FALSE, posts |-> 0]
                          ELSE NoLobby]
    /\ client_ready \in [PoolClients -> BOOLEAN]
    /\ gc_ready = client_ready
    /\ gc_watchdogs = << >>
    /\ game_counter = NumPoolClients
    /\ rating = [p \in Players |-> InitRating]
    /\ matches = << >>
    /\ match_players = {}
    /\ alive = {}
    /\ cancelled = {}
    /\ create_failed = {}
    /\ host = [g \in GameIds |-> 0]
    /\ run_done = [g \in GameIds |-> 0]
    /\ rating_updates = [g \in GameIds |-> 0]
    /\ finalize_count = [g \in GameIds |-> 0]

\* Master_Bot.make_game's get_next_game_id and its call of
\* DotaTalker.make_game for the game of players 1 and 2
PoolMakeGame(create_ok) ==
    /\ game_counter < NumPoolClients + MaxPoolGames
    /\ game_counter' = game_counter + 1
    /\ LET r == make_game(NumPoolClients, client, client_ready, lobby,
                          game_counter + 1, {1}, {2}, create_ok)
       IN  /\ client' = r.client
           /\ client_ready' = r.ready
           /\ lobby' = r.lobby
    /\ UNCHANGED <<side_vars, coord_vars, gc_ready, gc_watchdogs, ctrl_vars, loop_queue, rating, matches,
                   match_players, hist_vars>>

\* "notready": the client has lost its Game Coordinator session; the handler
\* relaunches the GC and leaves client_ready as it is
NotReady(i) ==
    /\ gc_ready[i]
    /\ gc_ready' = [gc_ready EXCEPT ![i] = FALSE]
    /\ UNCHANGED <<side_vars, coord_vars, gc_watchdogs, ctrl_vars, loop_queue, pool_vars,
                   store_vars, hist_vars>>

NextPool ==
    \/ \E create_ok \in BOOLEAN : PoolMakeGame(create_ok)
    \/ \E i \in PoolClients : Ready(i)
    \/ \E i \in PoolClients : NotReady(i)

SpecPool == InitPool /\ [][NextPool]_vars

\* the clients make_game may take: no game and ready
FreeInPool == {i \in PoolClients : client[i].gameID = NoGame /\ client_ready[i]}

\* C22: in every state of the pool, make_game takes the free client with the
\* smallest index, marks it not ready and gives it the game, and leaves the
\* other clients as they are; with no free client it returns none ("-1") and
\* changes no client, no ready flag and no lobby.
C22_SmallestFree ==
    \A create_ok \in BOOLEAN :
        LET r == make_game(NumPoolClients, client, client_ready, lobby,
                           game_counter + 1, {1}, {2}, create_ok)
        IN  /\ FreeInPool # {} =>
                   /\ r.slot = Min(FreeInPool)
                   /\ ~r.ready[r.slot]
                   /\ r.client[r.slot].gameID = game_counter + 1
                   /\ \A j \in PoolClients \ {r.slot} :
                          r.client[j] = client[j] /\ r.ready[j] = client_ready[j]
            /\ FreeInPool = {} =>
                   /\ r.slot = 0
                   /\ r.client = client
                   /\ r.ready = client_ready
                   /\ r.lobby = lobby

\* make_game has passed over client 1 (never ready), taken client 2 for a
\* new game and left client 3 free
C22_Witness ==
    /\ client[1].gameID = NoGame /\ ~client_ready[1]
    /\ client[2].gameID > NumPoolClients /\ ~client_ready[2]
    /\ client[3].gameID = NoGame /\ client_ready[3]

\* C23: in every state of the pool, the client make_game asks to create the
\* game's practice lobby is in READY: it has a Game Coordinator session.
C23_CreateOnReady ==
    LET r == make_game(NumPoolClients, client, client_ready, lobby,
                       game_counter + 1, {1}, {2}, TRUE)
    IN  r.slot # 0 => gc_ready[r.slot]

\* ============================================= two games and their clearing
\* The Controller's maps over two formations: queue_user, the game formation
\* and cancel_game (which runs clear_game), without the clients' events.
MaxClearGames == 2
ClearGameIds == 1..MaxClearGames

InitClear ==
    /\ InitCoordinator
    /\ InitSide
    /\ queue = << >>
    /\ pending_matches = {}
    /\ game_map = [p \in Players |-> NoGame]
    /\ game_map_inverse = << >>
    /\ game_channels = {}
    /\ loop_queue = << >>
    /\ client = [i \in Clients |-> IdleClient]
    /\ client_ready \in [Clients -> BOOLEAN]
    /\ gc_ready = client_ready
    /\ gc_watchdogs = << >>
    /\ lobby = [i \in Clients |-> NoLobby]
    /\ game_counter = 0
    /\ rating = [p \in Players |-> InitRating]
    /\ matches = << >>
    /\ match_players = {}
    /\ alive = {}
    /\ cancelled = {}
    /\ create_failed = {}
    /\ host = [g \in ClearGameIds |-> 0]
    /\ run_done = [g \in ClearGameIds |-> 0]
    /\ rating_updates = [g \in ClearGameIds |-> 0]
    /\ finalize_count = [g \in ClearGameIds |-> 0]

NextClear ==
    \/ \E p \in Players : QueueUser(p)
    \/ \E radiant, dire \in SUBSET Players :
           StartGameUpTo(MaxClearGames, radiant, dire, TRUE)
    \/ \E g \in ClearGameIds : CancelGame(g)

SpecClear == InitClear /\ [][NextClear]_vars

\* C24: in every reachable state and for every live game g (a key of
\* game_map_inverse), clear_game(g) leaves g out of game_map_inverse and out
\* of game_channels and leaves no player of game_map mapped to g.
C24_Cleared ==
    \A g \in DOMAIN game_map_inverse :
        LET c == clear_game(g, game_map_inverse, game_map, game_channels)
        IN  /\ g \notin DOMAIN c.gmi
            /\ g \notin c.gc
            /\ \A p \in Players : c.gm[p] # g

\* ================================================== a lobby in state UI
\* update_lobby_teams(gameID, radiant, dire): the first client that holds the
\* game and is in a lobby gets the new rosters. The rosters given are lists
\* of steam ids, possibly empty; a player is on one team at most.
UpdateLobbyTeams(g, radiant, dire) ==
    /\ radiant \cap dire = {}
    /\ {j \in Clients : client[j].gameID = g /\ lobby[j].state # "none"} # {}
    /\ \E i \in Clients :
           /\ i = Min({j \in Clients : client[j].gameID = g /\ lobby[j].state # "none"})
           /\ client' = [client EXCEPT ![i].radiant = radiant, ![i].dire = dire]
    /\ UNCHANGED <<side_vars, coord_vars, gc_ready, gc_watchdogs, ctrl_vars, loop_queue, client_ready,
                   lobby, store_vars, hist_vars>>

\* game 1 of players 1 and 2 has been formed on client 1 and its lobby
\* created: the state after QueueUser(1), QueueUser(2), Ready(1), StartGame
InitUI ==
    /\ InitCoordinator
    /\ InitSide
    /\ queue = << >>
    /\ pending_matches = {1}
    /\ game_map = [p \in Players |-> IF p \in {1, 2} THEN 1 ELSE NoGame]
    /\ game_map_inverse = (1 :> [radiant |-> {1}, dire |-> {2}])
    /\ game_channels = {1}
    /\ loop_queue = << >>
    /\ client = [i \in Clients |->
                    IF i = 1 THEN [gameID |-> 1, radiant |-> SteamSet({1}),
                                   dire |-> SteamSet({2})]
                    ELSE IdleClient]
    /\ client_ready = [i \in Clients |-> FALSE]
    /\ gc_ready = [i \in Clients |-> i = 1]
    /\ gc_watchdogs = << >>
    /\ lobby = [i \in Clients |->
                   IF i = 1 THEN [state |-> "UI", id |-> 1, launch_reqs |-> 0,
                                  kick_reqs |-> {}, reported |-> FALSE, posts |-> 0]
                   ELSE NoLobby]
    /\ game_counter = 1
    /\ rating = [p \in Players |-> InitRating]
    /\ matches = << >>
    /\ match_players = {}
    /\ alive = {1}
    /\ cancelled = {}
    /\ create_failed = {}
    /\ host = [g \in GameIds |-> IF g = 1 THEN 1 ELSE 0]
    /\ run_done = [g \in GameIds |-> 0]
    /\ rating_updates = [g \in GameIds |-> 0]
    /\ finalize_count = [g \in GameIds |-> 0]

\* swap_players_in_game(game_id, discord_id_1, discord_id_2) up to its
\* branch: the first client that holds the game is the one changed; `a` is
\* the steam id that leaves radiant and `b` the one that leaves dire. The
\* function runs on the control loop's thread, the lobby_changed handler on
\* the client's thread.
SwapTest(g, u1, u2) ==
    LET s1 == fetch_steam_id(u1)
        s2 == fetch_steam_id(u2)
    IN  /\ swp.at = "idle"
        /\ ClientsOf(g) # {}
        /\ LET i == Min(ClientsOf(g))
           IN  \/ /\ s1 \in client[i].radiant /\ s2 \in client[i].dire
                  /\ swp' = [at |-> "remove_radiant", slot |-> i, a |-> s1, b |-> s2]
               \/ /\ ~(s1 \in client[i].radiant /\ s2 \in client[i].dire)
                  /\ s1 \in client[i].dire /\ s2 \in client[i].radiant
                  /\ swp' = [at |-> "remove_radiant", slot |-> i, a |-> s2, b |-> s1]
        /\ UNCHANGED <<pc, mk, pending_game_task, loop_tasks, fs, poll, coord_vars,
                       gc_ready, gc_watchdogs, ctrl_vars, loop_queue, pool_vars,
                       store_vars, hist_vars>>

\* the next statement of the branch taken: client.radiant.remove(a),
\* client.dire.remove(b), client.radiant.append(b), client.dire.append(a)
SwapStep ==
    LET i == swp.slot
    IN  /\ swp.at # "idle"
        /\ \/ /\ swp.at = "remove_radiant"
              /\ client' = [client EXCEPT ![i].radiant = @ \ {swp.a}]
              /\ swp' = [swp EXCEPT !.at = "remove_dire"]
           \/ /\ swp.at = "remove_dire"
              /\ client' = [client EXCEPT ![i].dire = @ \ {swp.b}]
              /\ swp' = [swp EXCEPT !.at = "append_radiant"]
           \/ /\ swp.at = "append_radiant"
              /\ client' = [client EXCEPT ![i].radiant = @ \cup {swp.b}]
              /\ swp' = [swp EXCEPT !.at = "append_dire"]
           \/ /\ swp.at = "append_dire"
              /\ client' = [client EXCEPT ![i].dire = @ \cup {swp.a}]
              /\ swp' = [at |-> "idle", slot |-> 0, a |-> 0, b |-> 0]
        /\ UNCHANGED <<pc, mk, pending_game_task, loop_tasks, fs, poll, coord_vars,
                       gc_ready, gc_watchdogs, ctrl_vars, loop_queue, client_ready,
                       lobby, store_vars, hist_vars>>

NextUI ==
    \/ \E g \in GameIds, radiant, dire \in SUBSET SteamIds :
           UpdateLobbyTeams(g, radiant, dire)
    \/ \E i \in Clients, seat \in [SteamIds -> Seats] : LobbyChangedUI(i, seat)
    \/ \E i \in Clients : PlatformKick(i)
    \/ \E i \in Clients : PlatformLaunch(i)

SpecUI == InitUI /\ [][NextUI]_vars

\* the member is on the side the roster assigns
OnAssignedSide(c, seat, s) ==
    \/ s \in c.radiant /\ seat[s] = "GOOD"
    \/ s \in c.dire /\ seat[s] = "BAD"

\* C25: for every lobby in state UI and every lobby update, the supervisor
\* launches only if the roster is non-empty and every rostered player is
\* seated on the assigned side.
C25_LaunchNeedsRoster ==
    \A i \in Clients : \A seat \in [SteamIds -> Seats] :
        (lobby[i].state = "UI" /\ LaunchesLobby(client[i], seat)) =>
            /\ client[i].radiant \cup client[i].dire # {}
            /\ \A s \in client[i].radiant \cup client[i].dire :
                   OnAssignedSide(client[i], seat, s)

\* C26: for every lobby in state UI whose client holds a game, every lobby
\* update and every member of the update: a rostered member off the assigned
\* side is kicked; a non-rostered member on radiant or dire is kicked; a
\* rostered member on the assigned side is counted and not kicked; a
\* non-rostered member who is unassigned or spectating is neither.
C26_KickRules ==
    \A i \in Clients : \A seat \in [SteamIds -> Seats] :
        (lobby[i].state = "UI" /\ client[i].gameID # NoGame) =>
            \A s \in {m \in SteamIds : seat[m] # "ABSENT"} :
                LET c == client[i]
                    rostered == s \in c.radiant \cup c.dire
                    kicked == s \in Kicked(c, seat)
                    counted == s \in CorrectSeats(c, seat)
                IN  /\ (rostered /\ ~OnAssignedSide(c, seat, s)) => kicked
                    /\ (~rostered /\ seat[s] \in {"GOOD", "BAD"}) => kicked
                    /\ (rostered /\ OnAssignedSide(c, seat, s)) =>
                           counted /\ ~kicked
                    /\ (~rostered /\ seat[s] = "NONE") => ~kicked /\ ~counted

\* a lobby update has asked the platform to kick a rostered member and a
\* member who is not in the roster
C26_Witness ==
    \E i \in Clients :
        /\ lobby[i].state = "UI"
        /\ lobby[i].kick_reqs \cap (client[i].radiant \cup client[i].dire) # {}
        /\ lobby[i].kick_reqs \ (client[i].radiant \cup client[i].dire) # {}

\* ============================================ who calls the game client
\* the step asks client i's platform session for something: a lobby is
\* created (create_practice_lobby), a member is kicked
\* (practice_lobby_kick_from_team) or a launch is requested
\* (launch_practice_lobby)
ClientCalled(i) ==
    \/ lobby[i].state = "none" /\ lobby'[i].state = "UI"
    \/ /\ lobby[i].state = "UI" /\ lobby'[i].state = "UI"
       /\ \/ lobby'[i].launch_reqs > lobby[i].launch_reqs
          \/ lobby'[i].kick_reqs \ lobby[i].kick_reqs # {}

\* the step is one of the handlers setupClient registers on client i, which
\* run in the thread of that client
SupervisorStep(i) ==
    \/ Ready(i)
    \/ \E seat \in [SteamIds -> Seats] : LobbyChangedUI(i, seat)
    \/ LobbyChangedRUN(i)
    \/ \E outcome \in Outcomes : LobbyChangedPOSTGAME(i, outcome)

\* C27: every step that calls the game client of a slot is a step of that
\* client's own handlers; no step of the control loop calls a client.
C27_SupervisorContext ==
    [][\A i \in Clients : ClientCalled(i) => SupervisorStep(i)]_vars

\* ============================================================ GC watchdog
\* the platform drops the running lobby without a message: the lobby is no
\* longer in the practice-lobby list and no lobby_changed follows
PlatformDrop(i) ==
    /\ lobby[i].state = "RUN"
    /\ lobby[i].reported
    /\ lobby' = [lobby EXCEPT ![i].state = "lost"]
    /\ UNCHANGED <<side_vars, coord_vars, gc_ready, gc_watchdogs, ctrl_vars, loop_queue, client,
                   client_ready, store_vars, hist_vars>>

\* one game from its lobby in state UI to its end, with a platform that may
\* go silent
NextWatch ==
    \/ \E i \in Clients, seat \in [SteamIds -> Seats] : LobbyChangedUI(i, seat)
    \/ \E i \in Clients : PlatformKick(i)
    \/ \E i \in Clients : PlatformLaunch(i)
    \/ \E i \in Clients : LobbyChangedRUN(i)
    \/ \E g \in GameIds : Watch(g)
    \/ \E i \in Clients : PlatformEnd(i)
    \/ \E i \in Clients : PlatformDrop(i)
    \/ \E i \in Clients, outcome \in Outcomes : LobbyChangedPOSTGAME(i, outcome)
    \/ \E fail_at \in 0..(1 + 2 * TEAM_SIZE) : OnGameStarted(fail_at)
    \/ OnGameEnded

\* the control loop runs every coroutine scheduled on it: _watch and the
\* handlers of the queued events
WatchFairness ==
    /\ WF_vars(\E g \in GameIds : Watch(g))
    /\ WF_vars(\E fail_at \in 0..(1 + 2 * TEAM_SIZE) : OnGameStarted(fail_at))
    /\ WF_vars(OnGameEnded)

SpecWatch == InitUI /\ [][NextWatch]_vars /\ WatchFairness

\* C28: a client whose running lobby the platform has dropped silently
\* (no further event, the lobby absent from the list) is eventually released:
\* it holds no game and is ready again.
C28_WatchdogReleases ==
    \A i \in Clients :
        (lobby[i].state = "lost" /\ client[i].gameID # NoGame)
            ~> (client[i].gameID = NoGame /\ client_ready[i])

\* C29: once the POSTGAME report of a lobby has been handled, no watchdog of
\* its game is still scheduled or running.
C29_StoppedAfterPostgame ==
    \A i \in Clients :
        (lobby[i].state = "POSTGAME" /\ lobby[i].posts > 0
         /\ lobby[i].id \in DOMAIN gc_watchdogs) =>
            gc_watchdogs[lobby[i].id] # "pending"

\* ===================================================== stale RUN reports
\* the control loop is about to run on_game_started for a game that is not
\* in pending_matches
StaleStarted ==
    /\ loop_queue # << >>
    /\ Head(loop_queue).kind = "started"
    /\ Head(loop_queue).game_id \notin pending_matches

\* C30: a step that runs on_game_started for a game that is not in
\* pending_matches writes no match row and no match-player row and leaves
\* pending_matches and the maps of the active games as they are.
C30_StaleStartedIgnored ==
    [][(StaleStarted /\ loop_queue' = Tail(loop_queue)) =>
           UNCHANGED <<matches, match_players, pending_matches, game_map,
                       game_map_inverse, game_channels>>]_vars

\* a second RUN report of a game waits on the control loop after the first
\* was recorded and a player of the game was replaced
C30_Witness ==
    /\ StaleStarted
    /\ Head(loop_queue).game_id \in DOMAIN game_map_inverse
    /\ run_done[Head(loop_queue).game_id] = 1
    /\ \E p \in game_map_inverse[Head(loop_queue).game_id].radiant
               \cup game_map_inverse[Head(loop_queue).game_id].dire :
           \A r \in match_players : r.discord_id # p

\* ================================================== pending_matches
\* an external lobby was created for game g: a client took it and
\* create_practice_lobby returned
LobbyCreated(g) == host[g] # 0 /\ g \notin create_failed

\* C31: in every reachable state every game in pending_matches has had its
\* lobby created and has not been recorded as running.
C31_PendingHasLobby ==
    \A g \in pending_matches : LobbyCreated(g) /\ run_done[g] = 0

\* =========================== make_game against the handlers, by statement
\* DotaTalker.make_game runs on the control loop, the handlers of client i
\* in the thread of client i: their statements interleave.

\* DotaTalker.make_game(gameID, radiant, dire), called for the next game id:
\* its loop up to the test of a client
MakeScan(radiant, dire) ==
    LET g == game_counter + 1
        i == FirstFree(1, NumClients, client, client_ready)
    IN  /\ mk.at = "idle"
        /\ game_counter < MaxClearGames
        /\ radiant \cap dire = {}
        /\ Cardinality(radiant) = TEAM_SIZE /\ Cardinality(dire) = TEAM_SIZE
        /\ game_counter' = g
        /\ mk' = IF i = 0 THEN NoMake
                 ELSE [at |-> "set_ready", slot |-> i, g |-> g,
                       radiant |-> SteamSet(radiant), dire |-> SteamSet(dire)]
        /\ UNCHANGED <<swp, poll, pc, pending_game_task, loop_tasks, fs, coord_vars, gc_ready, gc_watchdogs, ctrl_vars, loop_queue,
                       pool_vars, rating, matches, match_players, hist_vars>>

\* self.set_ready(i, False)
MakeSetReady ==
    /\ mk.at = "set_ready"
    /\ client_ready' = [client_ready EXCEPT ![mk.slot] = FALSE]
    /\ mk' = [mk EXCEPT !.at = "gameID"]
    /\ UNCHANGED <<swp, poll, pc, pending_game_task, loop_tasks, fs, coord_vars, gc_ready, gc_watchdogs, ctrl_vars, loop_queue, client,
                   lobby, store_vars, hist_vars>>

\* make_lobby: dotaClient.gameID = gameID
MakeGameID ==
    /\ mk.at = "gameID"
    /\ client' = [client EXCEPT ![mk.slot].gameID = mk.g]
    /\ mk' = [mk EXCEPT !.at = "rosters"]
    /\ UNCHANGED <<swp, poll, pc, pending_game_task, loop_tasks, fs, coord_vars, gc_ready, gc_watchdogs, ctrl_vars, loop_queue,
                   client_ready, lobby, store_vars, hist_vars>>

\* make_lobby: dotaClient.radiant = radiant; dotaClient.dire = dire
MakeRostersSet ==
    /\ mk.at = "rosters"
    /\ client' = [client EXCEPT ![mk.slot].radiant = mk.radiant,
                                ![mk.slot].dire = mk.dire]
    /\ mk' = [mk EXCEPT !.at = "create"]
    /\ UNCHANGED <<swp, poll, pc, pending_game_task, loop_tasks, fs, coord_vars, gc_ready, gc_watchdogs, ctrl_vars, loop_queue,
                   client_ready, lobby, store_vars, hist_vars>>

\* make_lobby: dotaClient.create_practice_lobby(...)
MakeCreate ==
    /\ mk.at = "create"
    /\ lobby' = [lobby EXCEPT ![mk.slot] =
                    [state |-> "UI", id |-> mk.g, launch_reqs |-> 0, kick_reqs |-> {},
                     reported |-> FALSE, posts |-> 0]]
    /\ alive' = alive \cup {mk.g}
    /\ host' = [host EXCEPT ![mk.g] = mk.slot]
    /\ mk' = NoMake
    /\ UNCHANGED <<swp, poll, pc, pending_game_task, loop_tasks, fs, coord_vars, gc_ready, gc_watchdogs, ctrl_vars, loop_queue, client,
                   client_ready, store_vars, cancelled, create_failed, run_done,
                   rating_updates, finalize_count>>

\* "ready": `if dotaClient.gameID is None`
ReadyTest(i) ==
    /\ pc[i] = "idle"
    /\ pc' = [pc EXCEPT ![i] = IF client[i].gameID = NoGame THEN "ready_leave"
                               ELSE "ready_set"]
    /\ UNCHANGED <<swp, poll, mk, pending_game_task, loop_tasks, fs, coord_vars, ctrl_vars, loop_queue, pool_vars, gc_ready,
                   gc_watchdogs, store_vars, hist_vars>>

\* "ready": abandon_current_game(); leave_practice_lobby()
ReadyLeave(i) ==
    /\ pc[i] = "ready_leave"
    /\ lobby' = [lobby EXCEPT ![i] = NoLobby]
    /\ pc' = [pc EXCEPT ![i] = "ready_set"]
    /\ UNCHANGED <<swp, poll, mk, pending_game_task, loop_tasks, fs, coord_vars, gc_ready, gc_watchdogs, ctrl_vars, loop_queue, client,
                   client_ready, store_vars, hist_vars>>

\* "ready": self.set_ready(i, True)
ReadySet(i) ==
    /\ pc[i] = "ready_set"
    /\ client_ready' = [client_ready EXCEPT ![i] = TRUE]
    /\ gc_ready' = [gc_ready EXCEPT ![i] = TRUE]
    /\ pc' = [pc EXCEPT ![i] = "idle"]
    /\ UNCHANGED <<swp, poll, mk, pending_game_task, loop_tasks, fs, coord_vars, gc_watchdogs, ctrl_vars, loop_queue, client, lobby,
                   store_vars, hist_vars>>

\* the match of the lobby is played and ends on the platform
LobbyPlayed(i) ==
    /\ lobby[i].state = "UI"
    /\ lobby' = [lobby EXCEPT ![i].state = "POSTGAME", ![i].reported = TRUE]
    /\ UNCHANGED <<side_vars, coord_vars, gc_ready, gc_watchdogs, ctrl_vars, loop_queue,
                   client, client_ready, store_vars, hist_vars>>

\* POSTGAME: leave_practice_lobby(), on_game_ended(dotaClient.gameID,
\* message) scheduled
PostLeave(i, outcome) ==
    /\ pc[i] = "idle"
    /\ lobby[i].state = "POSTGAME"
    /\ lobby[i].posts < MaxPostgame
    /\ Len(loop_queue) < MaxLoopQueue
    /\ loop_queue' = Append(loop_queue,
                            [kind |-> "ended", game_id |-> client[i].gameID,
                             match_id |-> lobby[i].id, outcome |-> outcome])
    /\ lobby' = [lobby EXCEPT ![i].posts = @ + 1]
    /\ alive' = alive \ {client[i].gameID}
    /\ pc' = [pc EXCEPT ![i] = "post_gameID"]
    /\ UNCHANGED <<swp, poll, mk, pending_game_task, loop_tasks, fs, coord_vars, gc_ready, gc_watchdogs, ctrl_vars, client,
                   client_ready, store_vars, cancelled, create_failed, host, run_done,
                   rating_updates, finalize_count>>

\* POSTGAME: dotaClient.gameID = None
PostGameID(i) ==
    /\ pc[i] = "post_gameID"
    /\ client' = [client EXCEPT ![i].gameID = NoGame]
    /\ pc' = [pc EXCEPT ![i] = "post_rosters"]
    /\ UNCHANGED <<swp, poll, mk, pending_game_task, loop_tasks, fs, coord_vars, gc_ready, gc_watchdogs, ctrl_vars, loop_queue,
                   client_ready, lobby, store_vars, hist_vars>>

\* POSTGAME: dotaClient.radiant = None; dotaClient.dire = None
PostRosters(i) ==
    /\ pc[i] = "post_rosters"
    /\ client' = [client EXCEPT ![i].radiant = {}, ![i].dire = {}]
    /\ pc' = [pc EXCEPT ![i] = "post_ready"]
    /\ UNCHANGED <<swp, poll, mk, pending_game_task, loop_tasks, fs, coord_vars, gc_ready, gc_watchdogs, ctrl_vars, loop_queue,
                   client_ready, lobby, store_vars, hist_vars>>

\* POSTGAME: self.set_ready(i, True)
PostReady(i) ==
    /\ pc[i] = "post_ready"
    /\ client_ready' = [client_ready EXCEPT ![i] = TRUE]
    /\ pc' = [pc EXCEPT ![i] = "idle"]
    /\ UNCHANGED <<swp, poll, mk, pending_game_task, loop_tasks, fs, coord_vars, gc_ready, gc_watchdogs, ctrl_vars, loop_queue, client,
                   lobby, store_vars, hist_vars>>

NextRace ==
    \/ \E radiant, dire \in SUBSET Players : MakeScan(radiant, dire)
    \/ MakeSetReady
    \/ MakeGameID
    \/ MakeRostersSet
    \/ MakeCreate
    \/ \E i \in Clients : ReadyTest(i)
    \/ \E i \in Clients : ReadyLeave(i)
    \/ \E i \in Clients : ReadySet(i)
    \/ \E i \in Clients : LobbyPlayed(i)
    \/ \E i \in Clients, outcome \in Outcomes : PostLeave(i, outcome)
    \/ \E i \in Clients : PostGameID(i)
    \/ \E i \in Clients : PostRosters(i)
    \/ \E i \in Clients : PostReady(i)

SpecRace == InitClear /\ [][NextRace]_vars

\* C32: in every reachable state every live game (lobby created, not ended)
\* is held by exactly one client, and a client that make_game has taken
\* holds no other live game.
C32_OneSlotPerGame ==
    /\ \A g \in alive : Cardinality(ClientsOf(g)) = 1
    /\ mk.at # "idle" => client[mk.slot].gameID \notin alive \ {mk.g}

\* ================================================= ratings after a game
\* the players whose stored rating the step changes
RatingChanged == {p \in Players : rating'[p] # rating[p]}

\* C33: a step that runs on_game_ended for game g changes the rating of at
\* most 2 * TEAM_SIZE players, all of them in g's radiant and dire rosters.
C33_OnlyPlayersRated ==
    [][(loop_queue # << >> /\ Head(loop_queue).kind = "ended"
        /\ loop_queue' = Tail(loop_queue)) =>
           LET g == Head(loop_queue).game_id
               ros == IF g \in DOMAIN game_map_inverse
                      THEN game_map_inverse[g].radiant \cup game_map_inverse[g].dire
                      ELSE {}
           IN  /\ RatingChanged \subseteq ros
               /\ Cardinality(RatingChanged) <= 2 * TEAM_SIZE]_vars

\* ======================================================= the countdown loop
MaxTasks == 3

\* the tasks that are not done
LiveTasks == {t \in DOMAIN loop_tasks : loop_tasks[t].at # "done"}

\* asyncio.create_task(self._start_game_loop(seconds)), with the loop's
\* first test taken at creation: the task is at its
\* `await asyncio.sleep(seconds)` when the queue holds 2 * TEAM_SIZE players
\* and is done when it does not
create_task(q) ==
    Append(loop_tasks,
           [at |-> IF Cardinality(DOMAIN q) >= 2 * TEAM_SIZE THEN "sleep" ELSE "done",
            g |-> NoGame, radiant |-> {}, dire |-> {}, cut |-> {}])

\* queue_user: add the player; with 2 * TEAM_SIZE players queued and no
\* countdown task pending, start one
QueueUserTask(p) ==
    LET q == queue_user(p).queue
        starts == /\ Cardinality(DOMAIN q) >= 2 * TEAM_SIZE
                  /\ \/ pending_game_task = 0
                     \/ loop_tasks[pending_game_task].at = "done"
    IN  /\ queue_user(p).ok
        /\ queue' = q
        /\ IF starts
           THEN /\ Len(loop_tasks) < MaxTasks
                /\ loop_tasks' = create_task(q)
                /\ pending_game_task' = Len(loop_tasks) + 1
           ELSE UNCHANGED <<loop_tasks, pending_game_task>>
        /\ UNCHANGED <<swp, poll, pc, mk, fs, coord_vars, gc_ready, gc_watchdogs, pending_matches,
                       game_map, game_map_inverse, game_channels, loop_queue, pool_vars,
                       store_vars, hist_vars>>

\* _start_game_loop after its sleep: with too few players it breaks and the
\* finally clause clears pending_game_task; otherwise coordinator.make_game()
\* and Master_Bot.make_game up to its first await (the voice channels)
LoopWake(t, radiant, dire) ==
    /\ t \in DOMAIN loop_tasks
    /\ loop_tasks[t].at = "sleep"
    /\ IF Cardinality(DOMAIN queue) < 2 * TEAM_SIZE
       THEN /\ radiant = {} /\ dire = {}
            /\ loop_tasks' = [loop_tasks EXCEPT ![t].at = "done"]
            /\ pending_game_task' = 0
            /\ UNCHANGED <<queue, game_counter, pending_matches>>
       ELSE LET formed == FormGame(queue, radiant, dire)
            IN  /\ game_counter < MaxClearGames
                /\ radiant \subseteq DOMAIN queue /\ dire \subseteq DOMAIN queue
                /\ radiant \cap dire = {}
                /\ Cardinality(radiant) = TEAM_SIZE /\ Cardinality(dire) = TEAM_SIZE
                /\ queue' = formed.queue
                /\ game_counter' = game_counter + 1
                /\ pending_matches' = pending_matches \cup {game_counter + 1}
                /\ loop_tasks' = [loop_tasks EXCEPT ![t] =
                                     [at |-> "channels", g |-> game_counter + 1,
                                      radiant |-> radiant, dire |-> dire,
                                      cut |-> formed.cut]]
                /\ UNCHANGED pending_game_task
    /\ UNCHANGED <<swp, poll, pc, mk, fs, coord_vars, gc_ready, gc_watchdogs, game_map,
                   game_map_inverse, game_channels, loop_queue, pool_vars, rating,
                   matches, match_players, hist_vars>>

\* Master_Bot.make_game from the voice channels to its second await (the
\* messages to the players): the roster maps are filled
LoopChannels(t) ==
    /\ t \in DOMAIN loop_tasks
    /\ loop_tasks[t].at = "channels"
    /\ LET k == loop_tasks[t]
           ros == MakeRosters(k.radiant, k.dire, k.cut)
       IN  /\ game_map_inverse' = (k.g :> ros) @@ game_map_inverse
           /\ game_map' = [p \in Players |->
                             IF p \in ros.radiant \cup ros.dire THEN k.g
                             ELSE game_map[p]]
    /\ loop_tasks' = [loop_tasks EXCEPT ![t].at = "sending"]
    /\ UNCHANGED <<swp, poll, pc, mk, fs, pending_game_task, coord_vars, gc_ready, gc_watchdogs,
                   queue, pending_matches, game_channels, loop_queue, pool_vars,
                   store_vars, hist_vars>>

\* Master_Bot.make_game from its second await on: game_channels, then
\* `password = await self.dota_talker.make_game(...)`. DotaTalker.make_game
\* is a plain function that returns a str (or raises in
\* create_practice_lobby): awaiting its result raises TypeError, the
\* exception leaves make_game and _start_game_loop, whose finally clause
\* clears pending_game_task.
LoopLobby(t, create_ok) ==
    /\ t \in DOMAIN loop_tasks
    /\ loop_tasks[t].at = "sending"
    /\ LET k == loop_tasks[t]
           r == make_game(NumClients, client, client_ready, lobby, k.g,
                          k.radiant, k.dire, create_ok)
       IN  /\ game_channels' = game_channels \cup {k.g}
           /\ client' = r.client
           /\ client_ready' = r.ready
           /\ lobby' = r.lobby
           /\ r.slot = 0 => create_ok
           /\ host' = IF r.slot = 0 THEN host ELSE [host EXCEPT ![k.g] = r.slot]
           /\ alive' = IF r.slot # 0 /\ create_ok THEN alive \cup {k.g} ELSE alive
           /\ create_failed' = IF r.slot # 0 /\ ~create_ok
                               THEN create_failed \cup {k.g} ELSE create_failed
    /\ loop_tasks' = [loop_tasks EXCEPT ![t].at = "done"]
    /\ pending_game_task' = 0
    /\ UNCHANGED <<swp, poll, pc, mk, fs, coord_vars, gc_ready, gc_watchdogs, queue,
                   pending_matches, game_map, game_map_inverse, loop_queue,
                   store_vars, cancelled, run_done, rating_updates, finalize_count>>

\* force_start up to its first await: the pending task is cancelled. The
\* cancelled task is resumed with CancelledError at the loop's next
\* iteration, before force_start goes on: it ends where it is and its
\* finally clause clears pending_game_task.
ForceStartCancel ==
    /\ fs = "idle"
    /\ Cardinality(DOMAIN queue) >= 2 * TEAM_SIZE
    /\ loop_tasks' = IF pending_game_task # 0
                     THEN [loop_tasks EXCEPT ![pending_game_task].at = "done"]
                     ELSE loop_tasks
    /\ pending_game_task' = 0
    /\ fs' = "create"
    /\ UNCHANGED <<swp, poll, pc, mk, coord_vars, gc_ready, gc_watchdogs, ctrl_vars,
                   loop_queue, pool_vars, store_vars, hist_vars>>

\* force_start after its awaits:
\* self.pending_game_task = asyncio.create_task(self._start_game_loop(5))
ForceStartCreate ==
    /\ fs = "create"
    /\ Len(loop_tasks) < MaxTasks
    /\ loop_tasks' = create_task(queue)
    /\ pending_game_task' = Len(loop_tasks) + 1
    /\ fs' = "idle"
    /\ UNCHANGED <<swp, poll, pc, mk, coord_vars, gc_ready, gc_watchdogs, ctrl_vars,
                   loop_queue, pool_vars, store_vars, hist_vars>>

NextLoop ==
    \/ \E p \in Players : QueueUserTask(p)
    \/ \E t \in 1..MaxTasks, radiant, dire \in SUBSET Players :
           LoopWake(t, radiant, dire)
    \/ \E t \in 1..MaxTasks : LoopChannels(t)
    \/ \E t \in 1..MaxTasks, create_ok \in BOOLEAN : LoopLobby(t, create_ok)
    \/ ForceStartCancel
    \/ ForceStartCreate

SpecLoop == InitClear /\ [][NextLoop]_vars

\* C34: a step in which a countdown task ends leaves fewer than
\* 2 * TEAM_SIZE players queued, or another countdown task alive, or a
\* force_start about to create one.
C34_LoopKeepsForming ==
    [][(LiveTasks # {} /\ LiveTasks' = {}) =>
           \/ Cardinality(DOMAIN queue') < 2 * TEAM_SIZE
           \/ fs' = "create"]_vars

\* C40: in every reachable state at most one countdown task is alive and
\* pending_game_task refers to it.
C40_OneLoopTask ==
    /\ Cardinality(LiveTasks) <= 1
    /\ \A t \in LiveTasks : pending_game_task = t

\* ===================================== players taken out of the queue
\* C39: in every reachable state every player in the roster of a game is in
\* the roster of a game whose lobby was created, or is in the queue.
C39_FormedOrQueued ==
    \A g \in DOMAIN game_map_inverse :
        \A p \in game_map_inverse[g].radiant \cup game_map_inverse[g].dire :
            LobbyCreated(g) \/ p \in DOMAIN queue

\* ======================================== whose lobby produced an event
\* C36: every lobby_running or lobby_ended event scheduled for a game was
\* produced by that game's own lobby: the game id the handler read from the
\* client is the id of the lobby the message came from.
C36_OwnLobbyEvents ==
    \A k \in 1..Len(loop_queue) :
        loop_queue[k].game_id # NoGame =>
            loop_queue[k].game_id = loop_queue[k].match_id

\* ================================ a swap under way and the lobby update
NextSwap ==
    \/ \E g \in GameIds, u1, u2 \in Players : SwapTest(g, u1, u2)
    \/ SwapStep
    \/ \E i \in Clients, seat \in [SteamIds -> Seats] : LobbyChangedUI(i, seat)
    \/ \E i \in Clients : PlatformKick(i)
    \/ \E i \in Clients : PlatformLaunch(i)

SpecSwap == InitUI /\ [][NextSwap]_vars

\* C37: while swap_players_in_game is between its first and its last
\* statement on a client's rosters, no lobby update handled for that client
\* asks the platform to launch the lobby, and none asks it to kick one of
\* the two players while the player is on neither team.
C37_NoPartialRoster ==
    [][\A i \in Clients :
          (swp.slot = i /\ swp.at \in {"remove_dire", "append_radiant", "append_dire"}) =>
              /\ lobby'[i].launch_reqs <= lobby[i].launch_reqs
              /\ (lobby'[i].kick_reqs \ lobby[i].kick_reqs)
                     \cap ({swp.a, swp.b} \ (client[i].radiant \cup client[i].dire)) = {}]_vars

\* ============================== the Controller's and the client's roster
\* C38: in every reachable state, for every live game the Controller has a
\* roster for, the client that holds the game has the same players on the
\* same teams: its radiant and dire are the steam ids of the Controller's
\* radiant and dire sets.
C38_SameRosters ==
    \A g \in alive \cap DOMAIN game_map_inverse : \A i \in ClientsOf(g) :
        /\ client[i].radiant = SteamSet(game_map_inverse[g].radiant)
        /\ client[i].dire = SteamSet(game_map_inverse[g].dire)

\* ===================================================== the game-mode poll
\* GameModePoll of game 1: Start and End buttons, the select's callback and
\* the auto-close timer are coroutines of the control loop; each runs up to
\* its next await. poll.tasks holds the coroutines that are past their first
\* await: a start_poll ("start"), a manual _end_poll ("end"), an
\* _auto_close_task ("auto").
MaxPollTasks == 4
\* the modes offered, by the value mode_map gives them
PollModes == {1, 2}

\* _end_poll's choice of the winner from votes_by_user: the modes it may
\* apply (random.choice among tied modes), {} when winner is None
PollWinners(votes, in_game) ==
    LET tally(voters, m) == Cardinality({u \in DOMAIN votes \cap voters : votes[u] = m})
        spectators == DOMAIN votes \ in_game
        voted == {m \in PollModes : tally(in_game, m) > 0}
        max_in == Max({tally(in_game, m) : m \in voted})
        winners_in == {m \in voted : tally(in_game, m) = max_in}
        max_spec == Max({tally(spectators, m) : m \in winners_in})
        winners_spec == {m \in winners_in : tally(spectators, m) = max_spec}
    IN  IF voted = {} THEN {}
        ELSE IF Cardinality(winners_in) = 1 THEN winners_in
        ELSE IF max_spec > 0 /\ Cardinality(winners_spec) = 1 THEN winners_spec
        ELSE winners_in

\* an _end_poll whose lock section leaves the poll open
end_poll_open(p, self) == p

\* _end_poll's lock section for a poll that is not closed, run by task
\* `self` (0: a button's callback): _closed = True, and the auto-close task
\* is cancelled unless it is done or is the caller
end_poll_locked(p, self) ==
    LET a == p.auto_task
        cancels == a # 0 /\ a # self /\ p.tasks[a].at \notin {"done", "cancelled"}
    IN  [p EXCEPT !.closed = TRUE,
                  !.auto_task = IF cancels THEN 0 ELSE @,
                  !.tasks = [t \in DOMAIN p.tasks |->
                                IF cancels /\ t = a
                                THEN [p.tasks[t] EXCEPT !.at = "cancelled"]
                                ELSE p.tasks[t]]]

\* GameModeSelect.callback: the vote is stored only if the poll is started
\* and not closed; otherwise "Poll isn't active." and nothing changes
PollVote(u, m) ==
    /\ poll.started /\ ~poll.closed
    /\ poll' = [poll EXCEPT !.votes = (u :> m) @@ @]
    /\ UNCHANGED <<pc, mk, pending_game_task, loop_tasks, fs, swp, coord_vars,
                   ctrl_vars, loop_queue, pool_vars, gc_ready, gc_watchdogs,
                   store_vars, hist_vars>>

\* start_poll, its lock section: "Poll already started." when _started,
\* else _started = True; a round of the poll begins
StartPoll ==
    /\ Len(poll.tasks) < MaxPollTasks
    /\ ~poll.started
    /\ poll' = [poll EXCEPT !.started = TRUE, !.tallies = 0, !.changes = 0,
                            !.tasks = Append(@, [kind |-> "start", at |-> "edit",
                                                 winner |-> 0])]
    /\ UNCHANGED <<pc, mk, pending_game_task, loop_tasks, fs, swp, coord_vars,
                   ctrl_vars, loop_queue, pool_vars, gc_ready, gc_watchdogs,
                   store_vars, hist_vars>>

\* start_poll after its lock: without the lobby message it returns; else,
\* after the awaits on message.edit and alert_game_polling_started, it
\* cancels an auto-close task that is not done and creates a new one
StartTimer(t, found) ==
    LET a == poll.auto_task
        cancels == a # 0 /\ poll.tasks[a].at \notin {"done", "cancelled"}
        tasks == [k \in DOMAIN poll.tasks |->
                     IF k = t THEN [poll.tasks[k] EXCEPT !.at = "done"]
                     ELSE IF found /\ cancels /\ k = a
                     THEN [poll.tasks[k] EXCEPT !.at = "cancelled"]
                     ELSE poll.tasks[k]]
    IN  /\ t \in DOMAIN poll.tasks
        /\ poll.tasks[t].kind = "start" /\ poll.tasks[t].at = "edit"
        /\ found => Len(poll.tasks) < MaxPollTasks
        /\ poll' = IF found
                   THEN [poll EXCEPT !.tasks = Append(tasks, [kind |-> "auto",
                                                              at |-> "sleep",
                                                              winner |-> 0]),
                                     !.auto_task = Len(poll.tasks) + 1]
                   ELSE [poll EXCEPT !.tasks = tasks]
        /\ UNCHANGED <<pc, mk, pending_game_task, loop_tasks, fs, swp, coord_vars,
                       ctrl_vars, loop_queue, pool_vars, gc_ready, gc_watchdogs,
                       store_vars, hist_vars>>

\* the End button: _end_poll(interaction, manual=True) up to its first
\* await after the lock. "Poll already closed." when _closed; else the lock
\* section, the tally and the choice of the winner (0: None)
EndPoll(winner) ==
    LET in_game == IF 1 \in DOMAIN game_map_inverse
                   THEN Members(game_map_inverse[1]) ELSE {}
        winners == PollWinners(poll.votes, in_game)
        q == end_poll_locked(poll, 0)
    IN  /\ Len(poll.tasks) < MaxPollTasks
        /\ ~poll.closed
        /\ winner \in (IF winners = {} THEN {0} ELSE winners)
        /\ poll' = [q EXCEPT !.tallies = IF poll.started THEN @ + 1 ELSE @,
                             !.tasks = Append(@, [kind |-> "end",
                                                  at |-> IF winner = 0 THEN "reset"
                                                         ELSE "apply",
                                                  winner |-> winner])]
        /\ UNCHANGED <<pc, mk, pending_game_task, loop_tasks, fs, swp, coord_vars,
                       ctrl_vars, loop_queue, pool_vars, gc_ready, gc_watchdogs,
                       store_vars, hist_vars>>

\* _auto_close_task after its sleep: `if not self._closed` it runs
\* _end_poll(None) as above, in its own task
AutoClose(t, winner) ==
    LET in_game == IF 1 \in DOMAIN game_map_inverse
                   THEN Members(game_map_inverse[1]) ELSE {}
        winners == PollWinners(poll.votes, in_game)
        q == end_poll_locked(poll, t)
    IN  /\ t \in DOMAIN poll.tasks
        /\ poll.tasks[t].kind = "auto" /\ poll.tasks[t].at = "sleep"
        /\ winner \in (IF poll.closed \/ winners = {} THEN {0} ELSE winners)
        /\ poll' = IF poll.closed
                   THEN [poll EXCEPT !.tasks[t].at = "done"]
                   ELSE [q EXCEPT !.tallies = IF poll.started THEN @ + 1 ELSE @,
                                  !.tasks[t].at = IF winner = 0 THEN "reset"
                                                  ELSE "apply",
                                  !.tasks[t].winner = winner]
        /\ UNCHANGED <<pc, mk, pending_game_task, loop_tasks, fs, swp, coord_vars,
                       ctrl_vars, loop_queue, pool_vars, gc_ready, gc_watchdogs,
                       store_vars, hist_vars>>

\* _end_poll: change_lobby_mode(game_id, mode_enum) configures the lobby of
\* the client that holds the game
EndApply(t) ==
    /\ t \in DOMAIN poll.tasks
    /\ poll.tasks[t].at = "apply"
    /\ poll' = IF ClientsOf(1) # {}
               THEN [poll EXCEPT !.mode = poll.tasks[t].winner, !.changes = @ + 1,
                                 !.tasks[t].at = "reset"]
               ELSE [poll EXCEPT !.tasks[t].at = "reset"]
    /\ UNCHANGED <<pc, mk, pending_game_task, loop_tasks, fs, swp, coord_vars,
                   ctrl_vars, loop_queue, pool_vars, gc_ready, gc_watchdogs,
                   store_vars, hist_vars>>

\* _end_poll after the results are shown: _started = False, _closed = False,
\* votes_by_user.clear()
EndReset(t) ==
    /\ t \in DOMAIN poll.tasks
    /\ poll.tasks[t].at = "reset"
    /\ poll' = [poll EXCEPT !.started = FALSE, !.closed = FALSE, !.votes = << >>,
                            !.tasks[t].at = "done"]
    /\ UNCHANGED <<pc, mk, pending_game_task, loop_tasks, fs, swp, coord_vars,
                   ctrl_vars, loop_queue, pool_vars, gc_ready, gc_watchdogs,
                   store_vars, hist_vars>>

NextPoll ==
    \/ \E u \in Players, m \in PollModes : PollVote(u, m)
    \/ StartPoll
    \/ \E t \in 1..MaxPollTasks, found \in BOOLEAN : StartTimer(t, found)
    \/ \E winner \in PollModes \cup {0} : EndPoll(winner)
    \/ \E t \in 1..MaxPollTasks, winner \in PollModes \cup {0} : AutoClose(t, winner)
    \/ \E t \in 1..MaxPollTasks : EndApply(t)
    \/ \E t \in 1..MaxPollTasks : EndReset(t)

SpecPoll == InitUI /\ [][NextPoll]_vars

\* C35: since the poll was last started the votes have been tallied at most
\* once and the lobby's mode changed at most once, whatever the order of
\* End, the timer, Start and the votes; and while the poll is not started or
\* is closed no step adds or alters a vote.
C35_OneTallyPerRound ==
    /\ [](poll.tallies <= 1 /\ poll.changes <= 1)
    /\ [][(~poll.started \/ poll.closed) =>
              \A u \in DOMAIN poll'.votes :
                  u \in DOMAIN poll.votes /\ poll'.votes[u] = poll.votes[u]]_vars

\* a round has ended by the End button with the mode changed, its timer
\* cancelled, and the poll is open for the next round
C35_Witness ==
    /\ poll.changes = 1 /\ poll.tallies = 1
    /\ poll.mode \in PollModes
    /\ ~poll.started /\ ~poll.closed
    /\ \E t \in DOMAIN poll.tasks :
           poll.tasks[t].kind = "auto" /\ poll.tasks[t].at = "cancelled"
====
